---- MODULE Spec2Model ----
(***************************************************************************)
(* TalentFlow: the mock API (src/mocks/handlers.ts), the Dexie helpers     *)
(* (lib/db, found at the end of AssessmentBuilderPage.tsx), the Kanban     *)
(* board, the jobs page and the assessment form, as state machines.        *)
(*                                                                         *)
(* Every await of a handler is a step boundary: a request record carries   *)
(* the handler's position (pc) and its locals (tmp).  The client pages     *)
(* (react-query caches and mutations) issue requests and react to the      *)
(* answers.  Identifiers are integers (the primary-key order of a Dexie    *)
(* table is the order of the integers); 0 stands for "no id".              *)
(***************************************************************************)
EXTENDS Integers, Sequences, FiniteSets, TLC

\* ------------------------------------------------------------------------
\* Bounds of the model
\* ------------------------------------------------------------------------
NumCandidates == 2      \* candidates seeded into the model's database
NumJobs == 3            \* jobs seeded into the model's database
MaxSlots == 2           \* requests that can be in flight at the same time
MaxOps == 2             \* requests a page or a client sends per behaviour

\* ------------------------------------------------------------------------
\* Values
\* ------------------------------------------------------------------------
NoId == 0
NoStage == "none"

STAGES == {"applied", "screen", "tech", "offer", "hired", "rejected"}

\* the stages the model's candidates are seeded in
StageInputs == {"applied", "screen", "tech"}

\* the columns the model's drags end on
DropTargets == {"applied", "screen"}

CandIds == 1..NumCandidates
JobIds == 1..NumJobs
Slots == 1..MaxSlots

Max(a, b) == IF a > b THEN a ELSE b
Min(a, b) == IF a < b THEN a ELSE b

\* Math.ceil(a / b) for a >= 0, b > 0
Ceil(a, b) == (a + b - 1) \div b

\* Array.prototype.slice(start, end) on a 0-based array held as a sequence
Slice(s, start, end) ==
  LET lo == Min(Max(start, 0), Len(s))
      hi == Min(Max(end, lo), Len(s))
  IN  SubSeq(s, lo + 1, hi)

\* the elements of a set of integers as an ascending sequence: the order in
\* which Dexie's toArray() returns the rows of a table (primary-key order)
RECURSIVE toArray(_)
toArray(S) ==
  IF S = {} THEN <<>>
  ELSE LET m == CHOOSE x \in S : \A y \in S : x <= y
       IN  <<m>> \o toArray(S \ {m})

Range(s) == {s[i] : i \in 1..Len(s)}

\* ------------------------------------------------------------------------
\* State
\* ------------------------------------------------------------------------
VARIABLES
  candidates,   \* db.candidates: id -> [stage, jobId, createdAt]
  timeline,     \* db.timeline: sequence of events, in insertion order
  jobs,         \* db.jobs: id -> [slug, order, status]
  notes,        \* db.notes: sequence of notes
  assessments,  \* db.assessments: id -> [jobId, title]
  responses,    \* db.assessmentResponses: sequence of submissions
  reqs,         \* requests in flight: slot -> request record
  ops,          \* number of requests the user's operations have sent
  kanban,       \* KanbanBoardPage: the 'candidates-all' query and its history
  jobsPage,     \* JobsPage: the 'jobs' query
  form,         \* AssessmentFormPage: answers, errors, section, submission
  evalv,        \* inputs and results of the pure functions under check
  boot          \* mocks/init.ts: the seeding lock, the stored version, the calls

dbVars == <<candidates, timeline, jobs, notes, assessments, responses>>
vars == <<candidates, timeline, jobs, notes, assessments, responses,
          reqs, ops, kanban, jobsPage, form, evalv, boot>>

\* ------------------------------------------------------------------------
\* Requests in flight
\* ------------------------------------------------------------------------
\* A free slot.  status 0: not answered yet.
Free ==
  [kind |-> "free", owner |-> "none", pc |-> "none", arg |-> <<>>,
   status |-> 0, injected |-> FALSE, threw |-> FALSE, wrote |-> FALSE,
   tmp |-> <<>>, body |-> <<>>]

\* a request that has just been sent: its handler is inside simulateDelay
NewReq(kind, owner, arg) ==
  [Free EXCEPT !.kind = kind, !.owner = owner, !.pc = "start", !.arg = arg]

FreeSlots == {s \in Slots : reqs[s].kind = "free"}
Pending(s, kind) == reqs[s].kind = kind /\ reqs[s].status = 0
Answered(s) == reqs[s].kind # "free" /\ reqs[s].status # 0

\* the handler returns HttpResponse.json(body, {status})
Respond(r, status, body) ==
  [r EXCEPT !.status = status, !.body = body, !.pc = "done"]

\* the injected failure of a write handler / of the reorder handler
RespondInjected(r) == [Respond(r, 500, <<>>) EXCEPT !.injected = TRUE]

\* the catch block of a handler: the database operation threw
RespondThrown(r) == [Respond(r, 500, <<>>) EXCEPT !.threw = TRUE]

\* ------------------------------------------------------------------------
\* lib/db: dbHelpers
\* ------------------------------------------------------------------------
candidateRow(id) ==
  [id |-> id, stage |-> candidates[id].stage, jobId |-> candidates[id].jobId]

\* results.sort((a, b) => bTime - aTime): stable, most recent first
RECURSIVE sortByCreatedAtDesc(_)
insertByCreatedAtDesc(s, x) ==
  LET Before(n) == candidates[s[n]].createdAt >= candidates[x].createdAt
      k == Cardinality({n \in 1..Len(s) : \A m \in 1..n : Before(m)})
  IN  SubSeq(s, 1, k) \o <<x>> \o SubSeq(s, k + 1, Len(s))
sortByCreatedAtDesc(s) ==
  IF s = <<>> THEN <<>>
  ELSE insertByCreatedAtDesc(sortByCreatedAtDesc(SubSeq(s, 1, Len(s) - 1)), s[Len(s)])

\* dbHelpers.getCandidates(filters): filters.stage / filters.jobId are
\* NoStage / NoId when the parameter is absent; page and pageSize as parsed
getCandidates(filters) ==
  LET all == DOMAIN candidates
      byStage == IF filters.stage # NoStage
                 THEN {c \in all : candidates[c].stage = filters.stage}
                 ELSE all
      query == IF filters.jobId # NoId
               THEN {c \in all : candidates[c].jobId = filters.jobId}
               ELSE byStage
      results == sortByCreatedAtDesc(toArray(query))
      page == IF filters.page = 0 THEN 1 ELSE filters.page
      pageSize == IF filters.pageSize = 0 THEN 20 ELSE filters.pageSize
      start == (page - 1) * pageSize
      paginated == Slice(results, start, start + pageSize)
  IN  [data |-> [i \in 1..Len(paginated) |-> candidateRow(paginated[i])],
       total |-> Len(results),
       page |-> page,
       pageSize |-> pageSize,
       totalPages |-> Ceil(Len(results), pageSize)]

\* dbHelpers.addTimelineEvent(event)
addTimelineEvent(tl, event) == Append(tl, event)

stageChangeEvent_NewAsOld(id, oldStage, newStage) ==
  [candidateId |-> id, type |-> "stage_change",
   fromStage |-> newStage, toStage |-> newStage]

stageChangeEvent(id, oldStage, newStage) ==
  [candidateId |-> id, type |-> "stage_change",
   fromStage |-> oldStage, toStage |-> newStage]

\* ------------------------------------------------------------------------
\* mocks/handlers.ts: candidates
\* ------------------------------------------------------------------------
\* PATCH /api/candidates/:id.  arg: [id, stage, jobId]; stage = NoStage when
\* the body carries no stage.  dbHelpers.updateCandidateStage awaits
\* get, update and addTimelineEvent one after the other (no transaction).
PatchCandidate(s) ==
  /\ Pending(s, "patchCandidate")
  /\ LET r == reqs[s]
         id == r.arg.id
     IN  \E inj \in BOOLEAN, thr \in BOOLEAN :
           CASE r.pc = "start" ->
                  IF inj
                  THEN \* shouldSimulateError()
                       /\ reqs' = [reqs EXCEPT ![s] = RespondInjected(r)]
                       /\ UNCHANGED dbVars
                  ELSE IF thr
                  THEN /\ reqs' = [reqs EXCEPT ![s] = RespondThrown(r)]
                       /\ UNCHANGED dbVars
                  ELSE IF r.arg.stage # NoStage
                  THEN \* updateCandidateStage: const candidate = await db.candidates.get(id)
                       /\ reqs' = [reqs EXCEPT ![s] =
                            IF id \notin DOMAIN candidates
                            THEN RespondThrown(r)
                            ELSE [r EXCEPT !.pc = "update",
                                           !.tmp = <<candidates[id].stage>>]]
                       /\ UNCHANGED dbVars
                  ELSE \* db.candidates.update(id, {...updates}); db.candidates.get(id)
                       IF id \in DOMAIN candidates
                       THEN /\ candidates' =
                                 [candidates EXCEPT ![id].jobId =
                                    IF r.arg.jobId # NoId THEN r.arg.jobId ELSE @]
                            /\ reqs' = [reqs EXCEPT ![s] =
                                 [Respond(r, 200, <<[id |-> id,
                                     stage |-> candidates'[id].stage,
                                     jobId |-> candidates'[id].jobId]>>)
                                  EXCEPT !.wrote = TRUE]]
                            /\ UNCHANGED <<timeline, jobs, notes, assessments, responses>>
                       ELSE /\ reqs' = [reqs EXCEPT ![s] = Respond(r, 200, <<>>)]
                            /\ UNCHANGED dbVars
             [] r.pc = "update" ->
                  IF thr
                  THEN /\ reqs' = [reqs EXCEPT ![s] = RespondThrown(r)]
                       /\ UNCHANGED dbVars
                  ELSE \* await db.candidates.update(id, {stage: newStage, updatedAt})
                       /\ candidates' = [candidates EXCEPT ![id].stage = r.arg.stage]
                       /\ reqs' = [reqs EXCEPT ![s] =
                            [r EXCEPT !.pc = "timeline", !.wrote = TRUE]]
                       /\ UNCHANGED <<timeline, jobs, notes, assessments, responses>>
             [] r.pc = "timeline" ->
                  IF thr
                  THEN /\ reqs' = [reqs EXCEPT ![s] = RespondThrown(r)]
                       /\ UNCHANGED dbVars
                  ELSE \* await this.addTimelineEvent(...); return db.candidates.get(id)
                       /\ timeline' = addTimelineEvent(timeline,
                            stageChangeEvent(id, r.tmp[1], r.arg.stage))
                       /\ reqs' = [reqs EXCEPT ![s] =
                            Respond(r, 200, <<candidateRow(id)>>)]
                       /\ UNCHANGED <<candidates, jobs, notes, assessments, responses>>
  /\ UNCHANGED <<ops, kanban, jobsPage, form, evalv, boot>>

\* GET /api/candidates.  arg: [stage, jobId, page, pageSize].  No injected
\* failure; 500 only from the catch block.
GetCandidates(s) ==
  /\ Pending(s, "getCandidates")
  /\ \E thr \in BOOLEAN :
       reqs' = [reqs EXCEPT ![s] =
                  IF thr THEN RespondThrown(reqs[s])
                  ELSE Respond(reqs[s], 200, <<getCandidates(reqs[s].arg)>>)]
  /\ UNCHANGED <<dbVars, ops, kanban, jobsPage, form, evalv, boot>>

\* ------------------------------------------------------------------------
\* pages/candidates/KanbanBoardPage.tsx
\* ------------------------------------------------------------------------
\* kanban.cache is <<>> while the 'candidates-all' query has no data, else
\* <<response>>.  kanban.fetch is the slot of the query's running fetch (0:
\* none), kanban.failureCount the failed attempts of that fetch, kanban.muts
\* the context of every stage mutation in flight.

\* fetchCandidates: GET /api/candidates?pageSize=10000
fetchCandidatesArg ==
  [stage |-> NoStage, jobId |-> NoId, page |-> 1, pageSize |-> 10000]

\* retry: 1 of the QueryClient's default options
QueryRetry == 1

\* onMutate, after cancelQueries: the snapshot and the optimistic update
\* onMutate whose map moves every cached candidate
onMutate_Everyone(cache, id, stage) ==
  [cache |->
     IF cache # <<>>
     THEN <<[cache[1] EXCEPT !.data =
               [i \in DOMAIN cache[1].data |->
                  [cache[1].data[i] EXCEPT !.stage = stage]]]>>
     ELSE cache,
   context |-> [previousCandidates |-> cache]]

onMutate(cache, id, stage) ==
  LET previousCandidates == cache
  IN  [cache |->
         IF previousCandidates # <<>>
         THEN <<[previousCandidates[1] EXCEPT !.data =
                   [i \in DOMAIN previousCandidates[1].data |->
                      IF previousCandidates[1].data[i].id = id
                      THEN [previousCandidates[1].data[i] EXCEPT !.stage = stage]
                      ELSE previousCandidates[1].data[i]]]>>
         ELSE cache,
       context |-> [previousCandidates |-> previousCandidates]]

\* onError that only shows the toast
onError_NoRestore(cache, context) == cache

\* onError: restore the snapshot
onError(cache, context) ==
  IF context.previousCandidates # <<>> THEN context.previousCandidates ELSE cache

\* queryClient.cancelQueries({queryKey: ["candidates-all"]}): the running
\* fetch is dropped, its answer will be ignored
cancelQueries(k, rq) ==
  [kanban |-> [k EXCEPT !.fetch = 0, !.failureCount = 0],
   reqs |-> IF k.fetch # 0 THEN [rq EXCEPT ![k.fetch] = Free] ELSE rq]

\* onSettled whose invalidation leaves a running fetch alone
\* (cancelRefetch: false)
onSettled_KeepFetch(k, rq, s) ==
  IF k.fetch # 0
  THEN [kanban |-> [k EXCEPT !.fresh = FALSE], reqs |-> rq]
  ELSE [kanban |-> [k EXCEPT !.fetch = s, !.fresh = FALSE],
        reqs |-> [rq EXCEPT ![s] =
                    NewReq("getCandidates", "kanban", fetchCandidatesArg)]]

\* onSettled: queryClient.invalidateQueries({queryKey: ["candidates-all"]}):
\* the running fetch, if any, is cancelled and a new one is started in slot s
onSettled(k, rq, s) ==
  LET c == cancelQueries(k, rq)
  IN  [kanban |-> [c.kanban EXCEPT !.fetch = s, !.fresh = FALSE],
       reqs |-> [c.reqs EXCEPT ![s] =
                   NewReq("getCandidates", "kanban", fetchCandidatesArg)]]

\* kanban.last: the error handler that has just run, if the last callback
\* of the page was one (history, for the properties)
NoEvent == [type |-> "none", id |-> NoId, overlap |-> FALSE]

cachedCandidate(id) ==
  LET d == kanban.cache[1].data
  IN  IF \E i \in DOMAIN d : d[i].id = id
      THEN <<d[CHOOSE i \in DOMAIN d : d[i].id = id]>>
      ELSE <<>>

\* handleDragEnd, with the mutate() it may start (onMutate included: the
\* await of cancelQueries resolves in the same task).  over = NoStage: the
\* candidate was dropped outside every column.
handleDragEnd(active, over) ==
  /\ ops < MaxOps
  /\ kanban.cache # <<>>
  /\ cachedCandidate(active) # <<>>
  /\ LET candidate == cachedCandidate(active)[1]
         c == cancelQueries(kanban, reqs)
         free == {s \in Slots : c.reqs[s].kind = "free"}
         s == CHOOSE x \in free : \A y \in free : x <= y
         m == onMutate(kanban.cache, active, over)
         others == DOMAIN kanban.muts
         ctx == [previousCandidates |-> m.context.previousCandidates,
                 id |-> active, stage |-> over,
                 before |-> kanban.cache, overlap |-> others # {}]
     IN  IF over = NoStage \/ candidate.stage = over
         THEN /\ kanban' = [kanban EXCEPT !.last = NoEvent]
              /\ UNCHANGED <<reqs, ops>>
         ELSE /\ free # {}
              /\ kanban' = [c.kanban EXCEPT
                   !.cache = m.cache,
                   !.fresh = FALSE,
                   !.muts = [x \in others \cup {s} |->
                               IF x = s THEN ctx
                               ELSE [kanban.muts[x] EXCEPT !.overlap = TRUE]],
                   !.last = NoEvent]
              /\ reqs' = [c.reqs EXCEPT ![s] =
                   NewReq("patchCandidate", "kanban",
                          [id |-> active, stage |-> over, jobId |-> NoId])]
              /\ ops' = ops + 1
  /\ UNCHANGED <<dbVars, jobsPage, form, evalv, boot>>

\* the answer to a stage mutation arrives: onSuccess or onError, then
\* onSettled
KanbanSettle(s) ==
  /\ Answered(s)
  /\ reqs[s].kind = "patchCandidate" /\ reqs[s].owner = "kanban"
  /\ LET ctx == kanban.muts[s]
         ok == reqs[s].status = 200
         k1 == [kanban EXCEPT
                  !.cache = IF ok THEN @ ELSE onError(@, ctx),
                  !.muts = [x \in DOMAIN kanban.muts \ {s} |-> kanban.muts[x]],
                  !.last = IF ok THEN NoEvent
                           ELSE [type |-> "onError", id |-> ctx.id,
                                 overlap |-> ctx.overlap]]
         st == onSettled(k1, [reqs EXCEPT ![s] = Free], s)
     IN  /\ kanban' = st.kanban
         /\ reqs' = st.reqs
  /\ UNCHANGED <<dbVars, ops, jobsPage, form, evalv, boot>>

\* the answer to the query's fetch arrives: the data is cached, or the fetch
\* is retried once, or the query ends in error with its data kept
KanbanFetched(s) ==
  /\ Answered(s)
  /\ reqs[s].kind = "getCandidates" /\ reqs[s].owner = "kanban"
  /\ kanban.fetch = s
  /\ IF reqs[s].status = 200
     THEN /\ kanban' = [kanban EXCEPT !.cache = reqs[s].body, !.fetch = 0,
                           !.failureCount = 0, !.fresh = TRUE,
                           !.last = NoEvent]
          /\ reqs' = [reqs EXCEPT ![s] = Free]
     ELSE IF kanban.failureCount < QueryRetry
     THEN /\ kanban' = [kanban EXCEPT !.failureCount = @ + 1,
                           !.last = NoEvent]
          /\ reqs' = [reqs EXCEPT ![s] =
                        NewReq("getCandidates", "kanban", fetchCandidatesArg)]
     ELSE /\ kanban' = [kanban EXCEPT !.fetch = 0, !.failureCount = 0,
                           !.last = NoEvent]
          /\ reqs' = [reqs EXCEPT ![s] = Free]
  /\ UNCHANGED <<dbVars, ops, jobsPage, form, evalv, boot>>

\* ------------------------------------------------------------------------
\* The Kanban board against the mock API
\* ------------------------------------------------------------------------
NoReqs == [s \in Slots |-> Free]

\* seed.ts, generateCandidates: every candidate has a stage and a job, and
\* the createdAt values differ.  The first two candidates start in the same
\* stage or in different ones.
SeedCandidates ==
  {f \in [CandIds -> [stage : StageInputs, jobId : {1}, createdAt : CandIds]] :
     \A c \in CandIds :
       /\ f[c].createdAt = c
       /\ c = 1 => f[c].stage = "applied"
       /\ c = 2 => f[c].stage \in {"applied", "screen"}
       /\ c > 2 => f[c].stage = "tech"}

KanbanIdle ==
  [cache |-> <<>>, fetch |-> 0, failureCount |-> 0, fresh |-> FALSE,
   muts |-> <<>>, last |-> NoEvent]

\* the page has been mounted: useQuery has started the first fetch
InitKanban ==
  /\ candidates \in SeedCandidates
  /\ timeline = <<>>
  /\ jobs = <<>>
  /\ notes = <<>>
  /\ assessments = <<>>
  /\ responses = <<>>
  /\ reqs = [NoReqs EXCEPT ![1] = NewReq("getCandidates", "kanban", fetchCandidatesArg)]
  /\ ops = 0
  /\ kanban = [KanbanIdle EXCEPT !.fetch = 1]
  /\ jobsPage = <<>>
  /\ form = <<>>
  /\ evalv = <<>> /\ boot = <<>>

NextKanban ==
  \/ \E c \in CandIds, over \in DropTargets \cup {NoStage} : handleDragEnd(c, over)
  \/ \E s \in Slots : PatchCandidate(s)
  \/ \E s \in Slots : GetCandidates(s)
  \/ \E s \in Slots : KanbanSettle(s)
  \/ \E s \in Slots : KanbanFetched(s)

SpecKanban == InitKanban /\ [][NextKanban]_vars

\* the cached stage of a candidate / the stored stage
cachedStage(id) == cachedCandidate(id)[1].stage

KanbanTypeOK ==
  /\ kanban.fetch \in Slots \cup {0}
  /\ DOMAIN kanban.muts \subseteq Slots
  /\ \A s \in DOMAIN kanban.muts : reqs[s].kind = "patchCandidate"
  /\ kanban.fetch # 0 => reqs[kanban.fetch].kind = "getCandidates"

\* ------------------------------------------------------------------------
\* Properties of the Kanban board
\* ------------------------------------------------------------------------
\* a stage mutation in slot s settles in this step
Settles(s) == s \in DOMAIN kanban.muts /\ s \notin DOMAIN kanban'.muts

\* C1: when a stage mutation that no other stage mutation overlapped fails,
\* the cache right after its error handler is the cache of just before the
\* drag.
C1_RollbackRestores ==
  [][\A s \in Slots :
       (Settles(s) /\ reqs[s].status # 200 /\ ~kanban.muts[s].overlap)
         => kanban'.cache = kanban.muts[s].before]_vars

\* the error handler of a mutation that nothing overlapped has just run, and
\* the dragged candidate is cached in a stage other than the one it was
\* dropped on
C1_Witness ==
  /\ kanban.last.type = "onError"
  /\ ~kanban.last.overlap
  /\ kanban.cache # <<>>
  /\ ops = 1
  /\ \E c \in CandIds : kanban.last.id = c /\ cachedStage(c) = candidates[c].stage

\* every stage mutation has settled and the refetch that the last
\* settlement started has delivered its data
KanbanQuiet == DOMAIN kanban.muts = {} /\ kanban.fetch = 0 /\ kanban.fresh

\* C4: once every stage mutation has settled and the refetch of the last
\* settlement has completed, every candidate's cached stage is its stored
\* stage.
C4_StageConsistency ==
  KanbanQuiet =>
    \A c \in DOMAIN candidates : cachedStage(c) = candidates[c].stage

\* two mutations, one of which changed the stored stage, have settled and
\* the last refetch has completed
C4_Witness ==
  /\ KanbanQuiet
  /\ ops = 2
  /\ Len(timeline) = 1

\* ------------------------------------------------------------------------
\* lib/db: jobs
\* ------------------------------------------------------------------------
\* the order of a job that was stored without one (POST /api/jobs carries
\* no order): undefined
NoOrder == -1

\* (a, b) => a.order - b.order, NaN read as +0 by Array.prototype.sort
compareOrder(a, b) ==
  IF jobs[a].order = NoOrder \/ jobs[b].order = NoOrder THEN 0
  ELSE jobs[a].order - jobs[b].order

\* results.sort((a, b) => a.order - b.order): stable
RECURSIVE sortByOrder(_)
insertByOrder(s, x) ==
  LET NotAfter(n) == compareOrder(s[n], x) <= 0
      k == Cardinality({n \in 1..Len(s) : \A m \in n..Len(s) : ~NotAfter(m)})
  IN  SubSeq(s, 1, Len(s) - k) \o <<x>> \o SubSeq(s, Len(s) - k + 1, Len(s))
sortByOrder(s) ==
  IF s = <<>> THEN <<>>
  ELSE insertByOrder(sortByOrder(SubSeq(s, 1, Len(s) - 1)), s[Len(s)])

jobRow(id) ==
  [id |-> id, slug |-> jobs[id].slug, order |-> jobs[id].order,
   status |-> jobs[id].status]

\* dbHelpers.getJobs(filters), without search and sort parameters:
\* filters.status is "all" when the parameter is absent
getJobs(filters) ==
  LET query == IF filters.status # "all"
               THEN {j \in DOMAIN jobs : jobs[j].status = filters.status}
               ELSE DOMAIN jobs
      results == sortByOrder(toArray(query))
      page == IF filters.page = 0 THEN 1 ELSE filters.page
      pageSize == IF filters.pageSize = 0 THEN 10 ELSE filters.pageSize
      start == (page - 1) * pageSize
      paginated == Slice(results, start, start + pageSize)
  IN  [data |-> [i \in 1..Len(paginated) |-> jobRow(paginated[i])],
       total |-> Len(results),
       page |-> page,
       pageSize |-> pageSize,
       totalPages |-> Ceil(Len(results), pageSize)]

\* array.splice(index, 1) / array.splice(index, 0, x) on 0-based indices
RemoveAt(s, index) == SubSeq(s, 1, index) \o SubSeq(s, index + 2, Len(s))
InsertAt(s, index, x) ==
  LET i == Min(index, Len(s))
  IN  SubSeq(s, 1, i) \o <<x>> \o SubSeq(s, i + 1, Len(s))

\* arrayMove of @dnd-kit/sortable, and the two splices of reorderJobs
arrayMove(s, from, to) == InsertAt(RemoveAt(s, from), to, s[from + 1])

\* dbHelpers.reorderJobs, after the read: the sorted ids with the job at
\* index fromOrder moved to index toOrder (fromOrder within the array)
reorderedIds(ids, fromOrder, toOrder) == arrayMove(ids, fromOrder, toOrder)

\* db.jobs.bulkUpdate(updates): every listed job that still exists gets its
\* index as order
bulkUpdateOrder(ids) ==
  [j \in DOMAIN jobs |->
     IF \E i \in 1..Len(ids) : ids[i] = j
     THEN [jobs[j] EXCEPT !.order = (CHOOSE i \in 1..Len(ids) : ids[i] = j) - 1]
     ELSE jobs[j]]

\* ------------------------------------------------------------------------
\* mocks/handlers.ts: jobs list and reorder
\* ------------------------------------------------------------------------
\* GET /api/jobs.  arg: [status, page, pageSize]
GetJobs(s) ==
  /\ Pending(s, "getJobs")
  /\ \E thr \in BOOLEAN :
       reqs' = [reqs EXCEPT ![s] =
                  IF thr THEN RespondThrown(reqs[s])
                  ELSE Respond(reqs[s], 200, <<getJobs(reqs[s].arg)>>)]
  /\ UNCHANGED <<dbVars, ops, kanban, jobsPage, form, evalv, boot>>

\* PATCH /api/jobs/:id/reorder.  arg: [fromOrder, toOrder, jobId].
\* reorderJobs awaits toArray (the read) and then bulkUpdate (the write).
ReorderJobs(s) ==
  /\ Pending(s, "reorder")
  /\ LET r == reqs[s]
     IN  \E inj \in BOOLEAN, thr \in BOOLEAN :
           CASE r.pc = "start" ->
                  /\ reqs' = [reqs EXCEPT ![s] =
                       IF inj THEN RespondInjected(r)   \* Math.random() < 0.1
                       ELSE IF thr THEN RespondThrown(r)
                       ELSE LET sorted == sortByOrder(toArray(DOMAIN jobs))
                            IN  IF r.arg.fromOrder >= Len(sorted)
                                THEN RespondThrown(r)   \* movedJob is undefined
                                ELSE [r EXCEPT !.pc = "write",
                                       !.tmp = reorderedIds(sorted, r.arg.fromOrder,
                                                            r.arg.toOrder)]]
                  /\ UNCHANGED dbVars
             [] r.pc = "write" ->
                  IF thr
                  THEN /\ reqs' = [reqs EXCEPT ![s] = RespondThrown(r)]
                       /\ UNCHANGED dbVars
                  ELSE /\ jobs' = bulkUpdateOrder(r.tmp)
                       /\ reqs' = [reqs EXCEPT ![s] =
                            [Respond(r, 200, <<>>) EXCEPT !.wrote = TRUE]]
                       /\ UNCHANGED <<candidates, timeline, notes, assessments, responses>>
  /\ UNCHANGED <<ops, kanban, jobsPage, form, evalv, boot>>

\* ------------------------------------------------------------------------
\* JobsPage (src/unnamed/part_001)
\* ------------------------------------------------------------------------
\* jobsPage.cache: <<>> or <<response>> of the query
\* ["jobs", {page, pageSize, search, status}]; jobsPage.status: the status
\* filter; jobsPage.muts: slot -> history of the reorder mutation in flight;
\* jobsPage.fetchOf: <<order before the drag>> when the running fetch was
\* started by the error handler of a reorder mutation.

\* useState(10)
JobsPageSize == 10

\* fetchJobs({page, pageSize, search, status}) with page 1 and no search
fetchJobsArg(status) == [status |-> status, page |-> 1, pageSize |-> JobsPageSize]

shownJobs(cache) == [i \in DOMAIN cache[1].data |-> cache[1].data[i].id]

NoJobsEvent == [type |-> "none", before |-> <<>>]

\* queryClient.invalidateQueries({queryKey: ["jobs"]}) of reorderMutation's
\* onError: the running fetch, if any, is cancelled and a new one starts in
\* slot s
reorderOnError(p, rq, s, before) ==
  [jobsPage |-> [p EXCEPT !.fetch = s, !.failureCount = 0,
                          !.fetchOf = <<before>>],
   reqs |-> [(IF p.fetch # 0 THEN [rq EXCEPT ![p.fetch] = Free] ELSE rq)
               EXCEPT ![s] = NewReq("getJobs", "jobs", fetchJobsArg(p.status))]]

\* handleDragEnd of the jobs table: active and over are rows of the shown
\* list; the optimistic setQueryData and reorderMutation.mutate
JobsPage_handleDragEnd(active, over) ==
  /\ ops < MaxOps
  /\ jobsPage.cache # <<>>
  /\ active # over
  /\ LET data == jobsPage.cache[1].data
         shown == shownJobs(jobsPage.cache)
     IN  /\ active \in Range(shown) /\ over \in Range(shown)
         /\ FreeSlots # {}
         /\ LET oldIndex == (CHOOSE i \in DOMAIN data : data[i].id = active) - 1
                newIndex == (CHOOSE i \in DOMAIN data : data[i].id = over) - 1
                newData == arrayMove(data, oldIndex, newIndex)
                s == CHOOSE x \in FreeSlots : \A y \in FreeSlots : x <= y
            IN  /\ jobsPage' = [jobsPage EXCEPT
                      !.cache = <<[jobsPage.cache[1] EXCEPT !.data = newData]>>,
                      !.muts = [x \in DOMAIN jobsPage.muts \cup {s} |->
                                  IF x = s THEN [before |-> shown]
                                  ELSE jobsPage.muts[x]],
                      !.last = [NoJobsEvent EXCEPT !.type = "mutate"]]
                /\ reqs' = [reqs EXCEPT ![s] =
                      NewReq("reorder", "jobs",
                             [fromOrder |-> oldIndex, toOrder |-> newIndex,
                              jobId |-> active])]
  /\ ops' = ops + 1
  /\ UNCHANGED <<dbVars, kanban, form, evalv, boot>>

\* the answer to a reorder mutation arrives: nothing on success, onError
\* otherwise
JobsSettle(s) ==
  /\ Answered(s)
  /\ reqs[s].kind = "reorder" /\ reqs[s].owner = "jobs"
  /\ LET ctx == jobsPage.muts[s]
         p1 == [jobsPage EXCEPT
                  !.muts = [x \in DOMAIN jobsPage.muts \ {s} |-> jobsPage.muts[x]],
                  !.last = [NoJobsEvent EXCEPT
                              !.type = IF reqs[s].status = 200
                                       THEN "onSuccess" ELSE "onError"]]
         e == reorderOnError(p1, [reqs EXCEPT ![s] = Free], s, ctx.before)
     IN  IF reqs[s].status = 200
         THEN /\ jobsPage' = p1
              /\ reqs' = [reqs EXCEPT ![s] = Free]
         ELSE /\ jobsPage' = e.jobsPage
              /\ reqs' = e.reqs
  /\ UNCHANGED <<dbVars, ops, kanban, form, evalv, boot>>

\* the answer to the query's fetch arrives
JobsFetched(s) ==
  /\ Answered(s)
  /\ reqs[s].kind = "getJobs" /\ reqs[s].owner = "jobs"
  /\ jobsPage.fetch = s
  /\ IF reqs[s].status = 200
     THEN /\ jobsPage' = [jobsPage EXCEPT !.cache = reqs[s].body, !.fetch = 0,
                             !.failureCount = 0, !.fetchOf = <<>>,
                             !.last = [type |-> "fetched",
                                       before |-> jobsPage.fetchOf]]
          /\ reqs' = [reqs EXCEPT ![s] = Free]
     ELSE IF jobsPage.failureCount < QueryRetry
     THEN /\ jobsPage' = [jobsPage EXCEPT !.failureCount = @ + 1,
                             !.last = [NoJobsEvent EXCEPT !.type = "retry"]]
          /\ reqs' = [reqs EXCEPT ![s] =
                        NewReq("getJobs", "jobs", fetchJobsArg(jobsPage.status))]
     ELSE /\ jobsPage' = [jobsPage EXCEPT !.fetch = 0, !.failureCount = 0,
                             !.fetchOf = <<>>,
                             !.last = [NoJobsEvent EXCEPT !.type = "fetchError"]]
          /\ reqs' = [reqs EXCEPT ![s] = Free]
  /\ UNCHANGED <<dbVars, ops, kanban, form, evalv, boot>>

\* seed.ts, generateJobs: order i, unique slugs, all active; a job may have
\* been archived since (handleArchive)
Slug(j) == IF j = 1 THEN "s1" ELSE IF j = 2 THEN "s2" ELSE IF j = 3 THEN "s3" ELSE "s4"

SeedJobs ==
  {[j \in JobIds |-> [slug |-> Slug(j), order |-> j - 1, status |-> st[j]]] :
     st \in [JobIds -> {"active", "archived"}]}

\* the page has been mounted with a status filter: the first fetch runs
InitJobsPage ==
  /\ jobs \in SeedJobs
  /\ candidates = <<>>
  /\ timeline = <<>>
  /\ notes = <<>>
  /\ assessments = <<>>
  /\ responses = <<>>
  /\ ops = 0
  /\ kanban = KanbanIdle
  /\ \E st \in {"all", "active"} :
       /\ jobsPage = [cache |-> <<>>, fetch |-> 1, failureCount |-> 0,
                      status |-> st, muts |-> <<>>, fetchOf |-> <<>>,
                      last |-> NoJobsEvent]
       /\ reqs = [NoReqs EXCEPT ![1] = NewReq("getJobs", "jobs", fetchJobsArg(st))]
  /\ form = <<>>
  /\ evalv = <<>> /\ boot = <<>>

NextJobsPage ==
  \/ \E a \in JobIds, o \in JobIds : JobsPage_handleDragEnd(a, o)
  \/ \E s \in Slots : ReorderJobs(s)
  \/ \E s \in Slots : GetJobs(s)
  \/ \E s \in Slots : JobsSettle(s)
  \/ \E s \in Slots : JobsFetched(s)

SpecJobsPage == InitJobsPage /\ [][NextJobsPage]_vars

\* C2: a failed reorder request leaves the stored order unchanged and, once
\* its error handler has run and the refetch it started has completed, the
\* list shown is in the order it had before the drag.
C2_ReorderRollback ==
  /\ \A s \in Slots :
       (reqs[s].kind = "reorder" /\ reqs[s].status = 500) => ~reqs[s].wrote
  /\ (jobsPage.last.type = "fetched" /\ jobsPage.last.before # <<>>)
       => shownJobs(jobsPage.cache) = jobsPage.last.before[1]

\* ------------------------------------------------------------------------
\* JavaScript values of the assessment form
\* ------------------------------------------------------------------------
\* A value is undefined, a string (a sequence of characters) or an array of
\* strings: what the form's inputs store in answers, and what a seeded
\* condition carries as its value.  Every value has the same three fields.
Undefined == [t |-> "undef", s |-> <<>>, a |-> <<>>]
Str(chars) == [t |-> "str", s |-> chars, a |-> <<>>]
Arr(strings) == [t |-> "arr", s |-> <<>>, a |-> strings]

\* a number, or NaN
NaN == [nan |-> TRUE, n |-> 0]
Num(n) == [nan |-> FALSE, n |-> n]

\* !value
Falsy(v) == v.t = "undef" \/ (v.t = "str" /\ v.s = <<>>)

\* String.prototype.toLowerCase on the model's alphabet
lowerChar(c) ==
  CASE c = "A" -> "a"
    [] c = "B" -> "b"
    [] c = "Y" -> "y"
    [] OTHER -> c
toLowerCase(chars) == [i \in 1..Len(chars) |-> lowerChar(chars[i])]

\* String.prototype.includes
includes(hay, needle) ==
  \E i \in 0..(Len(hay) - Len(needle)) :
    SubSeq(hay, i + 1, i + Len(needle)) = needle

\* Array.prototype.join(",")
RECURSIVE join(_)
join(strings) ==
  IF strings = <<>> THEN <<>>
  ELSE IF Len(strings) = 1 THEN strings[1]
  ELSE strings[1] \o <<",">> \o join(Tail(strings))

\* String(value)
String(v) ==
  CASE v.t = "str" -> v.s
    [] v.t = "arr" -> join(v.a)
    [] OTHER -> <<"u", "n", "d", "e", "f", "i", "n", "e", "d">>

Digits == {"0", "1", "2", "3", "4", "5", "6", "7", "8", "9"}
digitValue(c) ==
  CASE c = "0" -> 0 [] c = "1" -> 1 [] c = "2" -> 2 [] c = "3" -> 3
    [] c = "4" -> 4 [] c = "5" -> 5 [] c = "6" -> 6 [] c = "7" -> 7
    [] c = "8" -> 8 [] OTHER -> 9

RECURSIVE decimal(_)
decimal(chars) ==
  IF chars = <<>> THEN 0
  ELSE 10 * decimal(SubSeq(chars, 1, Len(chars) - 1)) + digitValue(chars[Len(chars)])

\* Number(value): the empty string is 0, a string of digits its value, any
\* other text NaN; an array converts through its String; undefined is NaN
Number(v) ==
  IF v.t = "undef" THEN NaN
  ELSE LET chars == String(v)
       IN  IF \A i \in 1..Len(chars) : chars[i] \in Digits
           THEN Num(decimal(chars))
           ELSE NaN

\* a > b and a < b on numbers: false when either is NaN
GreaterThan(x, y) == ~x.nan /\ ~y.nan /\ x.n > y.n
LessThan(x, y) == ~x.nan /\ ~y.nan /\ x.n < y.n

\* answer === value: two strings with the same characters; an array is
\* never identical to a value parsed from the assessment
StrictEquals(x, y) ==
  \/ x.t = "undef" /\ y.t = "undef"
  \/ x.t = "str" /\ y.t = "str" /\ x.s = y.s

\* array.includes(value)
arrayIncludes(arr, v) ==
  v.t = "str" /\ \E i \in 1..Len(arr.a) : arr.a[i] = v.s

\* ------------------------------------------------------------------------
\* AssessmentFormPage: conditional logic and validation
\* ------------------------------------------------------------------------
\* answers[condition.questionId]
answerOf(answers, questionId) ==
  IF questionId \in DOMAIN answers THEN answers[questionId] ELSE Undefined

\* the callback of conditionalLogic.every
conditionHolds(condition, answers) ==
  LET answer == answerOf(answers, condition.questionId)
  IN  IF Falsy(answer) THEN FALSE
      ELSE CASE condition.operator = "equals" ->
                  IF answer.t = "arr" THEN arrayIncludes(answer, condition.value)
                  ELSE StrictEquals(answer, condition.value)
             [] condition.operator = "not_equals" ->
                  IF answer.t = "arr" THEN ~arrayIncludes(answer, condition.value)
                  ELSE ~StrictEquals(answer, condition.value)
             [] condition.operator = "contains" ->
                  IF answer.t = "arr" THEN arrayIncludes(answer, condition.value)
                  ELSE includes(toLowerCase(String(answer)),
                                toLowerCase(String(condition.value)))
             [] condition.operator = "greater_than" ->
                  GreaterThan(Number(answer), Number(condition.value))
             [] condition.operator = "less_than" ->
                  LessThan(Number(answer), Number(condition.value))
             [] OTHER -> TRUE

\* shouldShowQuestion with some in place of every
shouldShowQuestion_Some(question, answers) ==
  IF Len(question.conditionalLogic) = 0 THEN TRUE
  ELSE \E i \in 1..Len(question.conditionalLogic) :
         conditionHolds(question.conditionalLogic[i], answers)

\* shouldShowQuestion(question); conditionalLogic is <<>> when absent
shouldShowQuestion(question, answers) ==
  IF Len(question.conditionalLogic) = 0 THEN TRUE
  ELSE \A i \in 1..Len(question.conditionalLogic) :
         conditionHolds(question.conditionalLogic[i], answers)

\* ------------------------------------------------------------------------
\* shouldShowQuestion on its inputs
\* ------------------------------------------------------------------------
\* conditions a question carries at most
MaxConds == 2

Operators == {"equals", "not_equals", "contains", "greater_than", "less_than"}

\* what the inputs of the form store: nothing yet, a cleared text field, a
\* choice, a text with an upper-case letter, a number, checked options
AnswerInputs ==
  {Undefined, Str(<<>>), Str(<<"a">>), Str(<<"A", "b">>), Str(<<"1", "0">>),
   Arr(<<<<"a">>>>)}

\* the values of conditions
ValueInputs == {Str(<<"a">>), Str(<<"5">>), Str(<<>>)}

\* questions with n conditions, the i-th on question i, and the answers
\* they read
ShowInputs(n) ==
  {[conditionalLogic |-> [i \in 1..n |-> [questionId |-> i,
                                           operator |-> c[i].operator,
                                           value |-> c[i].value]],
    answers |-> an, result |-> "none"] :
     c \in [1..n -> [operator : Operators, value : ValueInputs]],
     an \in [1..n -> AnswerInputs]}

InitShow ==
  /\ \E n \in 0..MaxConds : evalv \in ShowInputs(n)
  /\ candidates = <<>> /\ timeline = <<>> /\ jobs = <<>> /\ notes = <<>>
  /\ assessments = <<>> /\ responses = <<>>
  /\ reqs = [s \in Slots |-> Free] /\ ops = 0
  /\ kanban = <<>> /\ jobsPage = <<>> /\ form = <<>> /\ boot = <<>>

\* the page renders the question or not
Evaluate ==
  /\ evalv.result = "none"
  /\ evalv' = [evalv EXCEPT !.result =
                 IF shouldShowQuestion(evalv, evalv.answers) THEN "shown" ELSE "hidden"]
  /\ UNCHANGED <<dbVars, reqs, ops, kanban, jobsPage, form, boot>>

NextShow == Evaluate

SpecShow == InitShow /\ [][NextShow]_vars

\* C3 as stated: a question is shown exactly when it has no conditions or
\* every condition holds, a condition holding as the five operators read on
\* the answer as it is; not_equals is the negation of equals, also for a
\* question without an answer.
C3_AsStated ==
  evalv.result # "none" =>
    LET holds(c) ==
          LET answer == answerOf(evalv.answers, c.questionId)
              eq == StrictEquals(answer, c.value)
                      \/ (answer.t = "arr" /\ arrayIncludes(answer, c.value))
          IN  CASE c.operator = "equals" -> eq
                [] c.operator = "not_equals" -> ~eq
                [] c.operator = "contains" ->
                     IF answer.t = "arr" THEN arrayIncludes(answer, c.value)
                     ELSE answer.t = "str"
                          /\ includes(toLowerCase(answer.s), toLowerCase(String(c.value)))
                [] c.operator = "greater_than" ->
                     GreaterThan(Number(answer), Number(c.value))
                [] OTHER -> LessThan(Number(answer), Number(c.value))
    IN  (evalv.result = "shown") <=>
          \A i \in 1..Len(evalv.conditionalLogic) : holds(evalv.conditionalLogic[i])

\* C3 (amended): a question is shown exactly when it has no conditions or
\* every condition holds, and a condition on a question whose answer is
\* missing or the empty string never holds, whatever its operator; on any
\* other answer the five operators read as stated.
C3_ShownIffAllHold ==
  evalv.result # "none" =>
    LET holds(c) ==
          LET answer == answerOf(evalv.answers, c.questionId)
              eq == StrictEquals(answer, c.value)
                      \/ (answer.t = "arr" /\ arrayIncludes(answer, c.value))
          IN  /\ answer.t # "undef"
              /\ answer # Str(<<>>)
              /\ CASE c.operator = "equals" -> eq
                   [] c.operator = "not_equals" -> ~eq
                   [] c.operator = "contains" ->
                        IF answer.t = "arr" THEN arrayIncludes(answer, c.value)
                        ELSE includes(toLowerCase(answer.s), toLowerCase(String(c.value)))
                   [] c.operator = "greater_than" ->
                        GreaterThan(Number(answer), Number(c.value))
                   [] OTHER -> LessThan(Number(answer), Number(c.value))
    IN  (evalv.result = "shown") <=>
          \A i \in 1..Len(evalv.conditionalLogic) : holds(evalv.conditionalLogic[i])

\* a question with a not_equals condition on an unanswered question and a
\* condition that holds on an answered one has been evaluated and is hidden
C3_Witness ==
  /\ evalv.result = "hidden"
  /\ Len(evalv.conditionalLogic) = 2
  /\ evalv.conditionalLogic[1].operator = "not_equals"
  /\ evalv.answers[1] = Undefined
  /\ evalv.conditionalLogic[2].operator = "contains"
  /\ evalv.answers[2] = Str(<<"A", "b">>)
  /\ evalv.conditionalLogic[2].value = Str(<<"a">>)

\* ------------------------------------------------------------------------
\* AssessmentFormPage: the form
\* ------------------------------------------------------------------------
\* form.answers and form.errors are total over the questions: Undefined is
\* a key that is not set (JSON.stringify drops it), NoError a key that is
\* not in the error map.  minValue / maxValue are <<>> when undefined,
\* maxLength is 0 when undefined (the code tests it for truthiness).
NoError == ""

QuestionIds == {1, 2, 3, 4}

OptA == <<"a">>
OptY == <<"y">>
OptN == <<"n">>

Question(id, type, required, options, conditionalLogic) ==
  [id |-> id, type |-> type, required |-> required,
   minValue |-> <<>>, maxValue |-> <<>>, maxLength |-> 0,
   options |-> options, conditionalLogic |-> conditionalLogic]

Condition(questionId, operator, value) ==
  [questionId |-> questionId, operator |-> operator, value |-> value]

\* Three sections.  Question 2 (numeric, 1..5) shows when question 1 is
\* "y", question 3 (short text) when question 2 is greater than 3.
ChainedAssessment ==
  [sections |-> <<
     [questions |-> <<Question(1, "single-choice", TRUE, <<OptY, OptN>>, <<>>)>>],
     [questions |-> <<[Question(2, "numeric", TRUE, <<>>,
                         <<Condition(1, "equals", Str(OptY))>>)
                       EXCEPT !.minValue = <<1>>, !.maxValue = <<5>>]>>],
     [questions |-> <<[Question(3, "short-text", TRUE, <<>>,
                         <<Condition(2, "greater_than", Str(<<"3">>))>>)
                       EXCEPT !.maxLength = 1],
                      Question(4, "multi-choice", TRUE, <<OptA>>, <<>>)>>]>>]

\* The shape generateAssessments seeds: a condition is "equals" on the first
\* option of the choice question before it.
SeededAssessment ==
  [sections |-> <<
     [questions |-> <<Question(1, "single-choice", TRUE, <<OptY, OptN>>, <<>>),
                      Question(2, "multi-choice", TRUE, <<OptA>>,
                        <<Condition(1, "equals", Str(OptY))>>)>>],
     [questions |-> <<[Question(3, "long-text", FALSE, <<>>,
                         <<Condition(2, "equals", Str(OptA))>>)
                       EXCEPT !.maxLength = 2],
                      Question(4, "file-upload", TRUE, <<>>, <<>>)>>]>>]

Assessments == {ChainedAssessment, SeededAssessment}

\* assessment.sections[index].questions, index from 0
sectionQuestions(assessment, index) == assessment.sections[index + 1].questions

RECURSIVE allQuestions(_)
allQuestions(sections) ==
  IF sections = <<>> THEN <<>>
  ELSE sections[1].questions \o allQuestions(Tail(sections))

\* validateQuestion after its visibility test
validateRules(question, value) ==
  IF question.required
     /\ (value.t = "undef" \/ value = Str(<<>>) \/ value = Arr(<<>>))
  THEN "This field is required"
  ELSE LET numValue == Number(value)
           numeric ==
             IF question.type = "numeric" /\ value.t # "undef" /\ value # Str(<<>>)
             THEN IF numValue.nan THEN "Please enter a valid number"
                  ELSE IF question.minValue # <<>> /\ numValue.n < question.minValue[1]
                  THEN "Value must be at least minValue"
                  ELSE IF question.maxValue # <<>> /\ numValue.n > question.maxValue[1]
                  THEN "Value must be at most maxValue"
                  ELSE NoError
             ELSE NoError
       IN  IF numeric # NoError THEN numeric
           ELSE IF /\ question.type \in {"short-text", "long-text"}
                   /\ question.maxLength # 0
                   /\ ~Falsy(value)
                   /\ Len(String(value)) > question.maxLength
           THEN "Maximum maxLength characters allowed"
           ELSE NoError

validateQuestion(question, value, answers) ==
  IF ~shouldShowQuestion(question, answers) THEN NoError
  ELSE validateRules(question, value)

\* the forEach of validateCurrentSection and of handleSubmit with every
\* question validated, shown or not
collectErrors_Hidden(questions, answers) ==
  [id \in QuestionIds |->
     IF \E i \in 1..Len(questions) : questions[i].id = id
     THEN LET question == questions[CHOOSE i \in 1..Len(questions) : questions[i].id = id]
          IN  validateRules(question, answers[id])
     ELSE NoError]

\* the forEach of validateCurrentSection and of handleSubmit: the error map
\* of the shown questions among the given ones
collectErrors(questions, answers) ==
  [id \in QuestionIds |->
     IF \E i \in 1..Len(questions) : questions[i].id = id
     THEN LET question == questions[CHOOSE i \in 1..Len(questions) : questions[i].id = id]
          IN  IF shouldShowQuestion(question, answers)
              THEN validateQuestion(question, answers[id], answers)
              ELSE NoError
     ELSE NoError]

\* Object.keys(errors).length === 0
noErrors(errors) == \A id \in QuestionIds : errors[id] = NoError

\* handleSubmit's second pass over the current section only
allErrors_CurrentOnly(f) ==
  collectErrors(sectionQuestions(f.assessment, f.currentSectionIndex), f.answers)

\* handleSubmit's second pass: every section
allErrors(f) == collectErrors(allQuestions(f.assessment.sections), f.answers)

isLastSection(f) == f.currentSectionIndex = Len(f.assessment.sections) - 1

\* dbHelpers.submitAssessmentResponse(response)
submitAssessmentResponse(table, response) == Append(table, response)

\* POST /api/assessments/:jobId/submit.  arg: [answers]
PostSubmit(s) ==
  /\ Pending(s, "postSubmit")
  /\ \E inj \in BOOLEAN, thr \in BOOLEAN :
       IF inj
       THEN /\ reqs' = [reqs EXCEPT ![s] = RespondInjected(reqs[s])]
            /\ UNCHANGED dbVars
       ELSE IF thr
       THEN /\ reqs' = [reqs EXCEPT ![s] = RespondThrown(reqs[s])]
            /\ UNCHANGED dbVars
       ELSE /\ responses' = submitAssessmentResponse(responses, reqs[s].arg)
            /\ reqs' = [reqs EXCEPT ![s] =
                 [Respond(reqs[s], 201, <<reqs[s].arg>>) EXCEPT !.wrote = TRUE]]
            /\ UNCHANGED <<candidates, timeline, jobs, notes, assessments>>
  /\ UNCHANGED <<ops, kanban, jobsPage, form, evalv, boot>>

\* what the input of a shown question can store (the text inputs carry
\* maxLength, the numeric input min and max only as hints)
inputsOf(question) ==
  CASE question.type = "single-choice" ->
         {Str(question.options[i]) : i \in 1..Len(question.options)}
    [] question.type = "numeric" ->
         {Str(<<>>), Str(<<"0">>), Str(<<"4">>), Str(<<"9">>)}
    [] question.type \in {"short-text", "long-text"} ->
         {v \in {Str(<<>>), Str(<<"a">>), Str(<<"a", "b">>)} :
            question.maxLength = 0 \/ Len(v.s) <= question.maxLength}
    [] question.type = "file-upload" -> {Str(<<"a">>)}
    [] OTHER -> {}

\* the questions the page renders: those of the current section that
\* shouldShowQuestion lets through
renderedQuestions(f) ==
  LET qs == sectionQuestions(f.assessment, f.currentSectionIndex)
  IN  {qs[i] : i \in {j \in 1..Len(qs) : shouldShowQuestion(qs[j], f.answers)}}

\* the last handler that ran, and the section it ran in
FormEvent(type, f) == [type |-> type, from |-> f.currentSectionIndex]

\* handleAnswerChange(questionId, value) of a page whose state is f
answerChanged(f, questionId, value) ==
  [f EXCEPT !.answers[questionId] = value,
            !.errors[questionId] = NoError,
            !.last = FormEvent("handleAnswerChange", f)]

handleAnswerChange ==
  /\ ~form.done
  /\ \E question \in renderedQuestions(form) :
       \E value \in inputsOf(question) :
         form' = answerChanged(form, question.id, value)
  /\ UNCHANGED <<dbVars, reqs, ops, kanban, jobsPage, evalv, boot>>

handleMultiChoiceToggle ==
  /\ ~form.done
  /\ \E question \in renderedQuestions(form) :
       /\ question.type = "multi-choice"
       /\ \E i \in 1..Len(question.options) :
            LET option == question.options[i]
                answer == form.answers[question.id]
                currentValues == IF Falsy(answer) THEN <<>> ELSE answer.a
                newValues == IF \E k \in 1..Len(currentValues) : currentValues[k] = option
                             THEN SelectSeq(currentValues, LAMBDA v : v # option)
                             ELSE Append(currentValues, option)
            IN  form' = answerChanged(form, question.id, Arr(newValues))
  /\ UNCHANGED <<dbVars, reqs, ops, kanban, jobsPage, evalv, boot>>

\* validateCurrentSection's newErrors
validateCurrentSection(f) ==
  collectErrors(sectionQuestions(f.assessment, f.currentSectionIndex), f.answers)

handleNext ==
  /\ ~form.done
  /\ ~isLastSection(form)
  /\ LET newErrors == validateCurrentSection(form)
     IN  form' = [form EXCEPT
           !.errors = newErrors,
           !.currentSectionIndex =
              IF noErrors(newErrors) /\ @ < Len(form.assessment.sections) - 1
              THEN @ + 1 ELSE @,
           !.last = FormEvent("handleNext", form)]
  /\ UNCHANGED <<dbVars, reqs, ops, kanban, jobsPage, evalv, boot>>

handlePrevious ==
  /\ ~form.done
  /\ form.currentSectionIndex > 0
  /\ form' = [form EXCEPT !.currentSectionIndex = @ - 1,
                          !.last = FormEvent("handlePrevious", form)]
  /\ UNCHANGED <<dbVars, reqs, ops, kanban, jobsPage, evalv, boot>>

\* the buttons of the section navigation
goToSection ==
  /\ ~form.done
  /\ \E index \in 0..(Len(form.assessment.sections) - 1) :
       IF index < form.currentSectionIndex
       THEN form' = [form EXCEPT !.currentSectionIndex = index,
                                 !.last = FormEvent("goBack", form)]
       ELSE LET newErrors == validateCurrentSection(form)
            IN  form' = [form EXCEPT
                  !.errors = newErrors,
                  !.currentSectionIndex = IF noErrors(newErrors) THEN index ELSE @,
                  !.last = FormEvent("goToSection", form)]
  /\ UNCHANGED <<dbVars, reqs, ops, kanban, jobsPage, evalv, boot>>

\* handleSubmit: shown on the last section, disabled while the mutation is
\* pending.  form.pending is the slot of the submission request (0: none).
handleSubmit ==
  /\ ~form.done
  /\ isLastSection(form)
  /\ form.pending = 0
  /\ FreeSlots # {}
  /\ LET s == CHOOSE x \in FreeSlots : \A y \in FreeSlots : x <= y
         newErrors == validateCurrentSection(form)
         all == allErrors(form)
         event == FormEvent("handleSubmit", form)
     IN  IF ~noErrors(newErrors)
         THEN /\ form' = [form EXCEPT !.errors = newErrors, !.last = event]
              /\ UNCHANGED reqs
         ELSE IF ~noErrors(all)
         THEN /\ form' = [form EXCEPT !.errors = all, !.last = event]
              /\ UNCHANGED reqs
         ELSE /\ form' = [form EXCEPT !.errors = newErrors, !.pending = s,
                                      !.last = event]
              /\ reqs' = [reqs EXCEPT ![s] =
                   NewReq("postSubmit", "form", [answers |-> form.answers])]
  /\ UNCHANGED <<dbVars, ops, kanban, jobsPage, evalv, boot>>

\* submitMutation's onSuccess (navigate away) and onError (toast)
SubmitSettled ==
  /\ form.pending # 0
  /\ Answered(form.pending)
  /\ form' = [form EXCEPT !.pending = 0,
                          !.done = reqs[form.pending].status = 201,
                          !.last = FormEvent("settled", form)]
  /\ reqs' = [reqs EXCEPT ![form.pending] = Free]
  /\ UNCHANGED <<dbVars, ops, kanban, jobsPage, evalv, boot>>

\* the page after the candidate's name and email are in and the assessment
\* has loaded
InitForm ==
  /\ \E assessment \in Assessments :
       form = [assessment |-> assessment,
               currentSectionIndex |-> 0,
               answers |-> [id \in QuestionIds |-> Undefined],
               errors |-> [id \in QuestionIds |-> NoError],
               pending |-> 0,
               done |-> FALSE,
               last |-> [type |-> "none", from |-> 0]]
  /\ candidates = <<>> /\ timeline = <<>> /\ jobs = <<>> /\ notes = <<>>
  /\ assessments = <<>> /\ responses = <<>>
  /\ reqs = [s \in Slots |-> Free] /\ ops = 0
  /\ kanban = <<>> /\ jobsPage = <<>> /\ evalv = <<>> /\ boot = <<>>

NextForm ==
  \/ handleAnswerChange
  \/ handleMultiChoiceToggle
  \/ handleNext
  \/ handlePrevious
  \/ goToSection
  \/ handleSubmit
  \/ SubmitSettled
  \/ \E s \in Slots : PostSubmit(s)

SpecForm == InitForm /\ [][NextForm]_vars

\* C5 as stated: handleSubmit sends the submission only if every question
\* visible under the current answers, in every section, passes validation;
\* otherwise nothing is sent and the error map names the failing questions
\* (all of them).
C5_AsStated ==
  form.last.type = "handleSubmit" =>
    LET qs == allQuestions(form.assessment.sections)
        failing == {id \in QuestionIds :
                      \E i \in 1..Len(qs) :
                        /\ qs[i].id = id
                        /\ validateQuestion(qs[i], form.answers[id], form.answers) # NoError}
    IN  /\ (form.pending # 0) <=> (failing = {})
        /\ failing # {} => {id \in QuestionIds : form.errors[id] # NoError} = failing

\* C5 (amended): handleSubmit sends the submission exactly when every
\* question visible under the current answers, in every section, passes
\* validation; otherwise nothing is sent and the error map names the failing
\* questions of the last section when it has any, else every failing
\* question of the assessment.
C5_SubmitGating ==
  form.last.type = "handleSubmit" =>
    LET qs == allQuestions(form.assessment.sections)
        cur == sectionQuestions(form.assessment, form.currentSectionIndex)
        fails(q) == validateQuestion(q, form.answers[q.id], form.answers) # NoError
        failing == {id \in QuestionIds : \E i \in 1..Len(qs) : qs[i].id = id /\ fails(qs[i])}
        failingHere == {id \in QuestionIds : \E i \in 1..Len(cur) : cur[i].id = id /\ fails(cur[i])}
        named == {id \in QuestionIds : form.errors[id] # NoError}
    IN  /\ (form.pending # 0) <=> (failing = {})
        /\ form.pending # 0 => reqs[form.pending].arg.answers = form.answers
        /\ failing # {} => named = (IF failingHere # {} THEN failingHere ELSE failing)

\* a submit was held back by a question of an earlier section alone, and
\* the error map names it
C5_Witness ==
  /\ form.last.type = "handleSubmit"
  /\ form.pending = 0
  /\ form.currentSectionIndex = 2
  /\ form.errors[2] # NoError
  /\ form.errors[3] = NoError /\ form.errors[4] = NoError

\* C6: a question hidden under the current answers gets no validation
\* error from a validation pass, and a hidden required question without an
\* answer holds back neither Next nor Submit: Next advances exactly when the
\* shown questions of the section pass, Submit sends exactly when the shown
\* questions of every section pass.
C6_HiddenNotValidated ==
  LET hidden(q) == \E i \in 1..Len(q.conditionalLogic) :
                     ~conditionHolds(q.conditionalLogic[i], form.answers)
      qs == allQuestions(form.assessment.sections)
      from == sectionQuestions(form.assessment, form.last.from)
      passes(q) == hidden(q) \/ validateRules(q, form.answers[q.id]) = NoError
  IN  /\ form.last.type \in {"handleNext", "goToSection", "handleSubmit"}
           => \A i \in 1..Len(qs) : hidden(qs[i]) => form.errors[qs[i].id] = NoError
      /\ form.last.type = "handleNext"
           => ((form.currentSectionIndex = form.last.from + 1)
                 <=> \A i \in 1..Len(from) : passes(from[i]))
      /\ form.last.type = "handleSubmit"
           => ((form.pending # 0) <=> \A i \in 1..Len(qs) : passes(qs[i]))

\* Next has left the section of a hidden required question that has no
\* answer
C6_Witness ==
  /\ form.last.type = "handleNext"
  /\ form.last.from = 1
  /\ form.currentSectionIndex = 2
  /\ form.answers[2] = Undefined
  /\ form.answers[1] = Str(OptN)

\* ------------------------------------------------------------------------
\* mocks/handlers.ts: the other endpoints
\* ------------------------------------------------------------------------
\* crypto.randomUUID(): an id no row of the table has
newId(table) == IF DOMAIN table = {} THEN 1
                ELSE (CHOOSE x \in DOMAIN table : \A y \in DOMAIN table : y <= x) + 1

\* db.jobs.where("slug").equals(slug).and(job => job.id !== id).first() finds
\* a job (id = NoId: without the and clause)
slugTaken(slug, id) == \E j \in DOMAIN jobs : jobs[j].slug = slug /\ j # id

\* dbHelpers.createJob(job): CreateJobDialog's body carries no order
createJob(job) ==
  [j \in DOMAIN jobs \cup {newId(jobs)} |->
     IF j \in DOMAIN jobs THEN jobs[j]
     ELSE [slug |-> job.slug, order |-> NoOrder, status |-> "active"]]

\* dbHelpers.updateJob(id, updates): updates.slug / updates.status are <<>>
\* when the body does not carry them; a missing id is left alone
updateJob(id, updates) ==
  [j \in DOMAIN jobs |->
     IF j # id THEN jobs[j]
     ELSE [jobs[j] EXCEPT
             !.slug = IF updates.slug # <<>> THEN updates.slug[1] ELSE @,
             !.status = IF updates.status # <<>> THEN updates.status[1] ELSE @]]

\* GET /api/jobs/:id.  No try/catch: a throw of the lookup is answered 500
\* by the worker.
GetJob(s) ==
  /\ Pending(s, "getJob")
  /\ \E thr \in BOOLEAN :
       reqs' = [reqs EXCEPT ![s] =
                  IF thr THEN RespondThrown(reqs[s])
                  ELSE IF reqs[s].arg.id \notin DOMAIN jobs
                  THEN Respond(reqs[s], 404, <<>>)
                  ELSE Respond(reqs[s], 200, <<jobRow(reqs[s].arg.id)>>)]
  /\ UNCHANGED <<dbVars, ops, kanban, jobsPage, form, evalv, boot>>

\* POST /api/jobs.  arg: [slug].  The slug lookup and db.jobs.add are two
\* awaits; tmp records what the lookup found.
PostJob(s) ==
  /\ Pending(s, "postJob")
  /\ LET r == reqs[s]
     IN  \E inj \in BOOLEAN, thr \in BOOLEAN :
           CASE r.pc = "start" ->
                  /\ reqs' = [reqs EXCEPT ![s] =
                       IF inj THEN RespondInjected(r)
                       ELSE IF thr THEN RespondThrown(r)
                       ELSE IF slugTaken(r.arg.slug, NoId)
                       THEN [Respond(r, 400, <<[field |-> "slug"]>>)
                             EXCEPT !.tmp = <<TRUE>>]
                       ELSE [r EXCEPT !.pc = "write", !.tmp = <<FALSE>>]]
                  /\ UNCHANGED dbVars
             [] r.pc = "write" ->
                  IF thr
                  THEN /\ reqs' = [reqs EXCEPT ![s] = RespondThrown(r)]
                       /\ UNCHANGED dbVars
                  ELSE /\ jobs' = createJob(r.arg)
                       /\ reqs' = [reqs EXCEPT ![s] =
                            [Respond(r, 201, <<[id |-> newId(jobs), slug |-> r.arg.slug]>>)
                             EXCEPT !.wrote = TRUE]]
                       /\ UNCHANGED <<candidates, timeline, notes, assessments, responses>>
  /\ UNCHANGED <<ops, kanban, jobsPage, form, evalv, boot>>

\* PATCH /api/jobs/:id.  arg: [id, slug, status].  The lookup runs only for
\* a truthy updates.slug; tmp records whether another job had the slug when
\* the handler came to that point.
PatchJob(s) ==
  /\ Pending(s, "patchJob")
  /\ LET r == reqs[s]
         taken == r.arg.slug # <<>> /\ slugTaken(r.arg.slug[1], r.arg.id)
     IN  \E inj \in BOOLEAN, thr \in BOOLEAN :
           CASE r.pc = "start" ->
                  /\ reqs' = [reqs EXCEPT ![s] =
                       IF inj THEN RespondInjected(r)
                       ELSE IF r.arg.slug # <<>> /\ r.arg.slug[1] # ""
                       THEN IF thr THEN RespondThrown(r)
                            ELSE IF taken
                            THEN [Respond(r, 400, <<[field |-> "slug"]>>)
                                  EXCEPT !.tmp = <<TRUE>>]
                            ELSE [r EXCEPT !.pc = "write", !.tmp = <<FALSE>>]
                       ELSE [r EXCEPT !.pc = "write", !.tmp = <<taken>>]]
                  /\ UNCHANGED dbVars
             [] r.pc = "write" ->
                  IF thr
                  THEN /\ reqs' = [reqs EXCEPT ![s] = RespondThrown(r)]
                       /\ UNCHANGED dbVars
                  ELSE /\ jobs' = updateJob(r.arg.id, r.arg)
                       /\ reqs' = [reqs EXCEPT ![s] =
                            [Respond(r, 200,
                               IF r.arg.id \in DOMAIN jobs
                               THEN <<[id |-> r.arg.id, slug |-> jobs'[r.arg.id].slug]>>
                               ELSE <<>>)
                             EXCEPT !.wrote = r.arg.id \in DOMAIN jobs]]
                       /\ UNCHANGED <<candidates, timeline, notes, assessments, responses>>
  /\ UNCHANGED <<ops, kanban, jobsPage, form, evalv, boot>>

\* DELETE /api/jobs/:id with its write ahead of shouldSimulateError
DeleteJob_WriteFirst(s) ==
  /\ Pending(s, "deleteJob")
  /\ \E inj \in BOOLEAN :
       /\ jobs' = [j \in DOMAIN jobs \ {reqs[s].arg.id} |-> jobs[j]]
       /\ reqs' = [reqs EXCEPT ![s] =
            IF inj THEN [RespondInjected(reqs[s]) EXCEPT !.wrote = TRUE]
            ELSE [Respond(reqs[s], 200, <<>>) EXCEPT !.wrote = TRUE]]
       /\ UNCHANGED <<candidates, timeline, notes, assessments, responses>>
  /\ UNCHANGED <<ops, kanban, jobsPage, form, evalv, boot>>

\* DELETE /api/jobs/:id.  arg: [id]
DeleteJob(s) ==
  /\ Pending(s, "deleteJob")
  /\ \E inj \in BOOLEAN, thr \in BOOLEAN :
       IF inj
       THEN /\ reqs' = [reqs EXCEPT ![s] = RespondInjected(reqs[s])]
            /\ UNCHANGED dbVars
       ELSE IF thr
       THEN /\ reqs' = [reqs EXCEPT ![s] = RespondThrown(reqs[s])]
            /\ UNCHANGED dbVars
       ELSE /\ jobs' = [j \in DOMAIN jobs \ {reqs[s].arg.id} |-> jobs[j]]
            /\ reqs' = [reqs EXCEPT ![s] =
                 [Respond(reqs[s], 200, <<>>)
                  EXCEPT !.wrote = reqs[s].arg.id \in DOMAIN jobs]]
            /\ UNCHANGED <<candidates, timeline, notes, assessments, responses>>
  /\ UNCHANGED <<ops, kanban, jobsPage, form, evalv, boot>>

\* GET /api/candidates/:id.  No try/catch, as GET /api/jobs/:id.
GetCandidate(s) ==
  /\ Pending(s, "getCandidate")
  /\ \E thr \in BOOLEAN :
       reqs' = [reqs EXCEPT ![s] =
                  IF thr THEN RespondThrown(reqs[s])
                  ELSE IF reqs[s].arg.id \notin DOMAIN candidates
                  THEN Respond(reqs[s], 404, <<>>)
                  ELSE Respond(reqs[s], 200, <<candidateRow(reqs[s].arg.id)>>)]
  /\ UNCHANGED <<dbVars, ops, kanban, jobsPage, form, evalv, boot>>

\* POST /api/candidates.  arg: [stage, jobId].  dbHelpers.createCandidate
\* awaits db.candidates.add and then addTimelineEvent.
PostCandidate(s) ==
  /\ Pending(s, "postCandidate")
  /\ LET r == reqs[s]
         id == newId(candidates)
     IN  \E inj \in BOOLEAN, thr \in BOOLEAN :
           CASE r.pc = "start" ->
                  IF inj
                  THEN /\ reqs' = [reqs EXCEPT ![s] = RespondInjected(r)]
                       /\ UNCHANGED dbVars
                  ELSE IF thr
                  THEN /\ reqs' = [reqs EXCEPT ![s] = RespondThrown(r)]
                       /\ UNCHANGED dbVars
                  ELSE /\ candidates' =
                            [c \in DOMAIN candidates \cup {id} |->
                               IF c \in DOMAIN candidates THEN candidates[c]
                               ELSE [stage |-> r.arg.stage, jobId |-> r.arg.jobId,
                                     createdAt |-> id]]
                       /\ reqs' = [reqs EXCEPT ![s] =
                            [r EXCEPT !.pc = "timeline", !.tmp = <<id>>, !.wrote = TRUE]]
                       /\ UNCHANGED <<timeline, jobs, notes, assessments, responses>>
             [] r.pc = "timeline" ->
                  IF thr
                  THEN /\ reqs' = [reqs EXCEPT ![s] = RespondThrown(r)]
                       /\ UNCHANGED dbVars
                  ELSE /\ timeline' = addTimelineEvent(timeline,
                            [candidateId |-> r.tmp[1], type |-> "created",
                             fromStage |-> NoStage, toStage |-> NoStage])
                       /\ reqs' = [reqs EXCEPT ![s] =
                            Respond(r, 201, <<[id |-> r.tmp[1], stage |-> r.arg.stage,
                                               jobId |-> r.arg.jobId]>>)]
                       /\ UNCHANGED <<candidates, jobs, notes, assessments, responses>>
  /\ UNCHANGED <<ops, kanban, jobsPage, form, evalv, boot>>

\* .reverse().sortBy("createdAt"): most recent first
\* dbHelpers.getCandidateTimeline(candidateId)
reverse(s) == [i \in 1..Len(s) |-> s[Len(s) + 1 - i]]
getCandidateTimeline(candidateId) ==
  reverse(SelectSeq(timeline, LAMBDA e : e.candidateId = candidateId))

\* GET /api/candidates/:id/timeline
GetTimeline(s) ==
  /\ Pending(s, "getTimeline")
  /\ \E thr \in BOOLEAN :
       reqs' = [reqs EXCEPT ![s] =
                  IF thr THEN RespondThrown(reqs[s])
                  ELSE Respond(reqs[s], 200, <<getCandidateTimeline(reqs[s].arg.id)>>)]
  /\ UNCHANGED <<dbVars, ops, kanban, jobsPage, form, evalv, boot>>

\* GET /api/candidates/:id/notes with shouldSimulateError in it
GetNotes_Injected(s) ==
  /\ Pending(s, "getNotes")
  /\ \E inj \in BOOLEAN :
       reqs' = [reqs EXCEPT ![s] =
                  IF inj THEN RespondInjected(reqs[s])
                  ELSE Respond(reqs[s], 200,
                         <<reverse(SelectSeq(notes, LAMBDA n : n.candidateId = reqs[s].arg.id))>>)]
  /\ UNCHANGED <<dbVars, ops, kanban, jobsPage, form, evalv, boot>>

\* GET /api/candidates/:id/notes
GetNotes(s) ==
  /\ Pending(s, "getNotes")
  /\ \E thr \in BOOLEAN :
       reqs' = [reqs EXCEPT ![s] =
                  IF thr THEN RespondThrown(reqs[s])
                  ELSE Respond(reqs[s], 200,
                         <<reverse(SelectSeq(notes, LAMBDA n : n.candidateId = reqs[s].arg.id))>>)]
  /\ UNCHANGED <<dbVars, ops, kanban, jobsPage, form, evalv, boot>>

\* POST /api/candidates/:id/notes: db.notes.add(newNote)
PostNote(s) ==
  /\ Pending(s, "postNote")
  /\ \E inj \in BOOLEAN, thr \in BOOLEAN :
       IF inj
       THEN /\ reqs' = [reqs EXCEPT ![s] = RespondInjected(reqs[s])]
            /\ UNCHANGED dbVars
       ELSE IF thr
       THEN /\ reqs' = [reqs EXCEPT ![s] = RespondThrown(reqs[s])]
            /\ UNCHANGED dbVars
       ELSE /\ notes' = Append(notes, [candidateId |-> reqs[s].arg.id])
            /\ reqs' = [reqs EXCEPT ![s] =
                 [Respond(reqs[s], 201, <<[candidateId |-> reqs[s].arg.id]>>)
                  EXCEPT !.wrote = TRUE]]
            /\ UNCHANGED <<candidates, timeline, jobs, assessments, responses>>
  /\ UNCHANGED <<ops, kanban, jobsPage, form, evalv, boot>>

\* dbHelpers.getAssessment(jobId): <<>> or <<the first assessment of the job>>
getAssessment(jobId) ==
  LET found == {a \in DOMAIN assessments : assessments[a].jobId = jobId}
  IN  IF found = {} THEN <<>>
      ELSE <<assessments[CHOOSE a \in found : \A b \in found : a <= b]>>

\* GET /api/assessments/:jobId
GetAssessment(s) ==
  /\ Pending(s, "getAssessment")
  /\ \E thr \in BOOLEAN :
       reqs' = [reqs EXCEPT ![s] =
                  IF thr THEN RespondThrown(reqs[s])
                  ELSE Respond(reqs[s], 200, getAssessment(reqs[s].arg.jobId))]
  /\ UNCHANGED <<dbVars, ops, kanban, jobsPage, form, evalv, boot>>

\* PUT /api/assessments/:jobId.  arg: [id, jobId, title]; id is NoId when the
\* body has no id, as the body sent by the Assessment Builder (saveMutation:
\* title, description, sections, jobId).
\* dbHelpers.saveAssessment awaits get, then update or add (and get again).
\* db.assessments.get(undefined) is rejected by Dexie (no key to look up), and
\* the handler's catch block answers 500.
PutAssessment(s) ==
  /\ Pending(s, "putAssessment")
  /\ LET r == reqs[s]
         row == [jobId |-> r.arg.jobId, title |-> r.arg.title]
     IN  \E inj \in BOOLEAN, thr \in BOOLEAN :
           CASE r.pc = "start" ->
                  /\ reqs' = [reqs EXCEPT ![s] =
                       IF inj THEN RespondInjected(r)
                       ELSE IF thr THEN RespondThrown(r)
                       ELSE IF r.arg.id = NoId THEN Respond(r, 500, <<>>)
                       ELSE [r EXCEPT !.pc = "save",
                                      !.tmp = <<r.arg.id \in DOMAIN assessments>>]]
                  /\ UNCHANGED dbVars
             [] r.pc = "save" ->
                  IF thr \/ (~r.tmp[1] /\ r.arg.id \in DOMAIN assessments)
                  THEN \* the operation threw (add: the key exists by now)
                       /\ reqs' = [reqs EXCEPT ![s] = RespondThrown(r)]
                       /\ UNCHANGED dbVars
                  ELSE /\ assessments' =
                            IF r.tmp[1]
                            THEN [a \in DOMAIN assessments |->
                                    IF a = r.arg.id THEN row ELSE assessments[a]]
                            ELSE [a \in DOMAIN assessments \cup {r.arg.id} |->
                                    IF a = r.arg.id THEN row ELSE assessments[a]]
                       /\ reqs' = [reqs EXCEPT ![s] =
                            [Respond(r, 200, <<row>>) EXCEPT !.wrote = TRUE]]
                       /\ UNCHANGED <<candidates, timeline, jobs, notes, responses>>
  /\ UNCHANGED <<ops, kanban, jobsPage, form, evalv, boot>>

\* ------------------------------------------------------------------------
\* The API under clients that send requests concurrently
\* ------------------------------------------------------------------------
ApiKinds ==
  {"getJobs", "getJob", "postJob", "patchJob", "reorder", "deleteJob",
   "getCandidates", "getCandidate", "postCandidate", "patchCandidate",
   "getTimeline", "getNotes", "postNote", "getAssessment", "putAssessment",
   "postSubmit"}

GetKinds ==
  {"getJobs", "getJob", "getCandidates", "getCandidate", "getTimeline",
   "getNotes", "getAssessment"}

\* the requests the pages send: JobsPage, CreateJobDialog (a slug is
\* required), JobDetailPage (the whole form, its slug possibly cleared; the
\* archive button sends the status alone), the candidate pages, the
\* assessment builder and the assessment form
ApiArgs(kind) ==
  CASE kind = "getJobs" -> {fetchJobsArg("all")}
    [] kind = "getJob" -> [id : {1}]
    [] kind = "postJob" -> [slug : {"s1", "new"}]
    [] kind = "patchJob" ->
         [id : {1, 2}, slug : {<<"">>, <<"s2">>}, status : {<<>>}]
           \cup [id : {1}, slug : {<<>>}, status : {<<"archived">>}]
    [] kind = "reorder" -> [fromOrder : {0}, toOrder : {1}, jobId : {1}]
    [] kind = "deleteJob" -> [id : {1}]
    [] kind = "getCandidates" -> {fetchCandidatesArg}
    [] kind = "getCandidate" -> [id : {1}]
    [] kind = "postCandidate" -> [stage : {"applied"}, jobId : {1}]
    [] kind = "patchCandidate" ->
         {[id |-> 1, stage |-> "screen", jobId |-> NoId],
          [id |-> 1, stage |-> NoStage, jobId |-> 2]}
    [] kind = "getTimeline" -> [id : {1}]
    [] kind = "getNotes" -> [id : {1}]
    [] kind = "postNote" -> [id : {1}]
    [] kind = "getAssessment" -> [jobId : {1}]
    [] kind = "putAssessment" ->
         [id : {1, 2}, jobId : {1}, title : {"edited"}]
           \cup [id : {NoId}, jobId : {1, 2}, title : {"edited"}]
    [] OTHER -> {[answers |-> [id \in QuestionIds |-> Undefined]]}

ApiSend ==
  /\ ops < MaxOps
  /\ FreeSlots # {}
  /\ LET s == CHOOSE x \in FreeSlots : \A y \in FreeSlots : x <= y
     IN  \E kind \in ApiKinds : \E arg \in ApiArgs(kind) :
           reqs' = [reqs EXCEPT ![s] = NewReq(kind, "client", arg)]
  /\ ops' = ops + 1
  /\ UNCHANGED <<dbVars, kanban, jobsPage, form, evalv, boot>>

\* the client has read the answer
ApiReceive(s) ==
  /\ Answered(s)
  /\ reqs' = [reqs EXCEPT ![s] = Free]
  /\ UNCHANGED <<dbVars, ops, kanban, jobsPage, form, evalv, boot>>

\* the database after initializeDatabase: the seeded jobs (unique slugs,
\* order = index, active), candidates and one assessment
InitApi ==
  /\ jobs = [j \in JobIds |-> [slug |-> Slug(j), order |-> j - 1, status |-> "active"]]
  /\ candidates \in SeedCandidates
  /\ timeline = <<>>
  /\ notes = <<>>
  /\ assessments = [a \in {1} |-> [jobId |-> 1, title |-> "seeded"]]
  /\ responses = <<>>
  /\ reqs = [s \in Slots |-> Free]
  /\ ops = 0
  /\ kanban = <<>> /\ jobsPage = <<>> /\ form = <<>> /\ evalv = <<>> /\ boot = <<>>

NextApi ==
  \/ ApiSend
  \/ \E s \in Slots :
       \/ ApiReceive(s)
       \/ GetJobs(s) \/ GetJob(s) \/ PostJob(s) \/ PatchJob(s)
       \/ ReorderJobs(s) \/ DeleteJob(s)
       \/ GetCandidates(s) \/ GetCandidate(s) \/ PostCandidate(s)
       \/ PatchCandidate(s) \/ GetTimeline(s) \/ GetNotes(s) \/ PostNote(s)
       \/ GetAssessment(s) \/ PutAssessment(s) \/ PostSubmit(s)

SpecApi == InitApi /\ [][NextApi]_vars

\* C7: slug uniqueness as an invariant: no two stored jobs have the same
\* slug, whatever POST /api/jobs and PATCH /api/jobs/:id requests run and
\* however they interleave.
C7_SlugUnique ==
  \A a \in DOMAIN jobs : \A b \in DOMAIN jobs :
    a # b => jobs[a].slug # jobs[b].slug

\* C8: a POST whose slug is the slug of a stored job, and a PATCH whose slug
\* is the slug of a different stored job (as found when the handler, past
\* the simulated failure, comes to its uniqueness check), answer 400 with
\* field 'slug' and write nothing; a PATCH is answered 400 only when a
\* different job has the slug.
C8_ConflictRejected ==
  \A s \in Slots :
    (reqs[s].kind \in {"postJob", "patchJob"} /\ reqs[s].status # 0
       /\ ~reqs[s].injected)
      => /\ reqs[s].tmp = <<TRUE>>
              => (reqs[s].status = 400 /\ ~reqs[s].wrote
                    /\ reqs[s].body = <<[field |-> "slug"]>>)
         /\ reqs[s].status = 400 => reqs[s].tmp = <<TRUE>>

\* C9: the step in which a write endpoint answers the simulated 500 changes
\* no table, and the request has written nothing before it.
C9_InjectedNoEffect ==
  [][\A s \in Slots :
       (reqs'[s].injected /\ ~reqs[s].injected)
         => /\ UNCHANGED dbVars
            /\ ~reqs[s].wrote /\ ~reqs'[s].wrote
            /\ reqs'[s].status = 500]_vars

\* a DELETE of a stored job was answered the simulated 500 while another
\* request had written
C9_Witness ==
  /\ reqs[2].kind = "deleteJob" /\ reqs[2].injected
  /\ reqs[2].arg.id \in DOMAIN jobs
  /\ reqs[1].wrote

\* C10: no GET endpoint answers with an injected failure; a GET answers 500
\* only when its database operation threw.
C10_GetNeverInjected ==
  \A s \in Slots :
    reqs[s].kind \in GetKinds
      => /\ ~reqs[s].injected
         /\ reqs[s].status = 500 => reqs[s].threw

\* a GET was answered 500 by a throw next to a write that was answered the
\* simulated 500
C10_Witness ==
  /\ reqs[1].kind = "postNote" /\ reqs[1].injected
  /\ reqs[2].kind = "getNotes" /\ reqs[2].status = 500 /\ reqs[2].threw

\* ------------------------------------------------------------------------
\* mocks/init.ts: initializeDatabase and its module-level lock.  App.tsx
\* calls it from an effect after worker.start(); under React StrictMode the
\* effect runs twice, so calls overlap.  A call is a sequence of steps, one
\* per await; what runs between two awaits is one step.
\* ------------------------------------------------------------------------

MaxCalls == 3
Calls == 1..MaxCalls

SEED_VERSION == "v2.0"

\* the awaits of the seeding function, lines 24-81, in order
SeedingPcs == {"delete", "sleep", "open", "jobs", "candidates",
               "assessments", "timeline", "count1", "count2"}

\* table.bulkAdd(rows): the generated rows carry fresh uuids, so they are
\* added next to whatever the table holds
bulkAdd(table, rows) ==
  LET n == Cardinality(DOMAIN table)
  IN  [i \in 1..(n + Len(rows)) |-> IF i <= n THEN table[i] ELSE rows[i - n]]

\* generateSeedData(), types/index.ts 439-456
generateSeedData(firstJob, firstCandidate) ==
  [jobs        |-> [j \in JobIds |-> [slug |-> Slug(j), order |-> j - 1,
                                      status |-> "active"]],
   candidates  |-> [c \in CandIds |-> [stage |-> "applied", jobId |-> firstJob,
                                       createdAt |-> firstCandidate + c - 1]],
   assessments |-> <<[jobId |-> firstJob, title |-> "seeded"]>>]

\* line 12: the lock is held
lockHeld_Never(b) == FALSE

lockHeld(b) == b.isInitializing /\ b.initializationPromise # 0

\* the seeding promise of call c settles: the owner's await at line 84 was
\* registered first, so its finally (lines 85-88) runs first, then the
\* calls waiting at line 14 resume; all of it in one microtask checkpoint
settle(b, c, ok) ==
  [b EXCEPT !.isInitializing = FALSE,
            !.initializationPromise = 0,
            !.failed = @ \/ ~ok,
            !.calls = [d \in Calls |->
               IF d = c \/ (@[d].pc = "waiting" /\ @[d].waitingOn = c)
               THEN [@[d] EXCEPT !.pc = IF ok THEN "returned" ELSE "threw"]
               ELSE @[d]]]

\* initializeDatabase() is called: lines 12-24 and 89-90 up to the first await
initializeDatabase(c) ==
  /\ boot.calls[c].pc = "idle"
  /\ \A d \in Calls : d < c => boot.calls[d].pc # "idle"
  /\ LET overlapped == \E d \in Calls : boot.calls[d].pc \in SeedingPcs
         call == [boot.calls[c] EXCEPT !.overlapped = overlapped]
     IN  boot' =
           IF lockHeld(boot)
           THEN [boot EXCEPT !.calls[c] =
                   [call EXCEPT !.pc = "waiting",
                                !.waitingOn = boot.initializationPromise]]
           ELSE IF boot.storedVersion # SEED_VERSION
           THEN [boot EXCEPT !.isInitializing = TRUE,
                             !.initializationPromise = c,
                             !.calls[c] = [call EXCEPT !.pc = "delete"]]
           ELSE [boot EXCEPT !.calls[c] = [call EXCEPT !.pc = "else1"]]
  /\ UNCHANGED <<dbVars, reqs, ops, kanban, jobsPage, form, evalv>>

\* one await of the seeding function of call c resumes, lines 24-81
seedStep(c) ==
  /\ boot.calls[c].pc \in SeedingPcs
  /\ \E thr \in BOOLEAN :
       LET call == boot.calls[c]
           goto(pc) == [boot EXCEPT !.calls[c].pc = pc]
       IN  CASE call.pc = "delete" ->
                  \* lines 28-40: a failure is logged and seeding goes on
                  IF thr
                  THEN /\ boot' = goto("jobs")
                       /\ UNCHANGED dbVars
                  ELSE /\ boot' = [boot EXCEPT !.calls[c].pc = "sleep",
                                               !.calls[c].deleted = TRUE]
                       /\ candidates' = <<>> /\ jobs' = <<>> /\ assessments' = <<>>
                       /\ timeline' = <<>> /\ notes' = <<>> /\ responses' = <<>>
             [] call.pc = "sleep" ->
                  /\ ~thr
                  /\ boot' = goto("open")
                  /\ UNCHANGED dbVars
             [] call.pc = "open" ->
                  /\ boot' = goto("jobs")
                  /\ UNCHANGED dbVars
             [] call.pc = "jobs" ->
                  IF thr
                  THEN /\ boot' = settle(boot, c, FALSE)
                       /\ UNCHANGED dbVars
                  ELSE /\ jobs' = bulkAdd(jobs, generateSeedData(0, 0).jobs)
                       /\ boot' = [boot EXCEPT !.calls[c].pc = "candidates",
                                    !.calls[c].wrote = TRUE,
                                    !.calls[c].firstJob = Cardinality(DOMAIN jobs) + 1]
                       /\ UNCHANGED <<candidates, timeline, notes, assessments, responses>>
             [] call.pc = "candidates" ->
                  IF thr
                  THEN /\ boot' = settle(boot, c, FALSE)
                       /\ UNCHANGED dbVars
                  ELSE /\ candidates' = bulkAdd(candidates,
                            generateSeedData(call.firstJob,
                               Cardinality(DOMAIN candidates) + 1).candidates)
                       /\ boot' = [boot EXCEPT !.calls[c].pc = "assessments",
                                    !.calls[c].firstCandidate =
                                       Cardinality(DOMAIN candidates) + 1]
                       /\ UNCHANGED <<jobs, timeline, notes, assessments, responses>>
             [] call.pc = "assessments" ->
                  IF thr
                  THEN /\ boot' = settle(boot, c, FALSE)
                       /\ UNCHANGED dbVars
                  ELSE /\ assessments' = bulkAdd(assessments,
                            generateSeedData(call.firstJob, 0).assessments)
                       /\ boot' = goto("timeline")
                       /\ UNCHANGED <<candidates, timeline, jobs, notes, responses>>
             [] call.pc = "timeline" ->
                  \* lines 63-75: the events, then the version is stored
                  IF thr
                  THEN /\ boot' = settle(boot, c, FALSE)
                       /\ UNCHANGED dbVars
                  ELSE /\ timeline' = timeline \o
                            [i \in 1..NumCandidates |->
                               [candidateId |-> call.firstCandidate + i - 1,
                                type |-> "created",
                                fromStage |-> NoStage, toStage |-> NoStage]]
                       /\ boot' = [boot EXCEPT !.calls[c].pc = "count1",
                                               !.storedVersion = SEED_VERSION]
                       /\ UNCHANGED <<candidates, jobs, notes, assessments, responses>>
             [] call.pc = "count1" ->
                  /\ boot' = IF thr THEN settle(boot, c, FALSE) ELSE goto("count2")
                  /\ UNCHANGED dbVars
             [] call.pc = "count2" ->
                  /\ boot' = settle(boot, c, ~thr)
                  /\ UNCHANGED dbVars
  /\ UNCHANGED <<reqs, ops, kanban, jobsPage, form, evalv>>

\* lines 89-93: the database is already seeded, the two counts are read
alreadySeeded(c) ==
  /\ boot.calls[c].pc \in {"else1", "else2"}
  /\ \E thr \in BOOLEAN :
       boot' = [boot EXCEPT !.calls[c].pc =
                  IF thr THEN "threw"
                  ELSE IF @ = "else1" THEN "else2" ELSE "returned"]
  /\ UNCHANGED <<dbVars, reqs, ops, kanban, jobsPage, form, evalv>>

InitBoot ==
  /\ \E seeded \in BOOLEAN :
       LET seed == generateSeedData(1, 1)
       IN  /\ jobs = IF seeded THEN seed.jobs ELSE <<>>
           /\ candidates = IF seeded THEN seed.candidates ELSE <<>>
           /\ assessments = IF seeded THEN seed.assessments ELSE <<>>
           /\ timeline = IF seeded
                         THEN [i \in 1..NumCandidates |->
                                 [candidateId |-> i, type |-> "created",
                                  fromStage |-> NoStage, toStage |-> NoStage]]
                         ELSE <<>>
           /\ boot = [isInitializing |-> FALSE,
                      initializationPromise |-> 0,
                      storedVersion |-> IF seeded THEN SEED_VERSION ELSE "none",
                      failed |-> FALSE,
                      calls |-> [c \in Calls |->
                         [pc |-> "idle", overlapped |-> FALSE, waitingOn |-> 0,
                          deleted |-> FALSE, wrote |-> FALSE,
                          firstJob |-> 0, firstCandidate |-> 0]]]
  /\ notes = <<>>
  /\ responses = <<>>
  /\ reqs = [s \in Slots |-> Free]
  /\ ops = 0
  /\ kanban = <<>> /\ jobsPage = <<>> /\ form = <<>> /\ evalv = <<>>

NextBoot ==
  \E c \in Calls :
    \/ initializeDatabase(c)
    \/ seedStep(c)
    \/ alreadySeeded(c)

SpecBoot == InitBoot /\ [][NextBoot]_vars

\* C11: a call of initializeDatabase that arrives while an earlier call is
\* seeding neither deletes nor seeds the database itself, and has returned
\* only when that seeding is over and the version is stored; unless a
\* seeding was rejected by the database, no table ever holds more than one
\* copy of the seed data, and once any call has returned every table holds
\* exactly one.
C11_InitLock ==
  /\ \A c \in Calls :
       boot.calls[c].overlapped =>
         /\ ~boot.calls[c].deleted
         /\ ~boot.calls[c].wrote
         /\ boot.calls[c].pc \notin SeedingPcs
         /\ boot.calls[c].pc = "returned" =>
              /\ boot.storedVersion = SEED_VERSION
              /\ \A d \in Calls : boot.calls[d].pc \notin SeedingPcs
  /\ ~boot.failed =>
       /\ Len(jobs) <= NumJobs
       /\ Len(candidates) <= NumCandidates
       /\ Len(assessments) <= 1
       /\ Len(timeline) <= NumCandidates
       /\ (\E c \in Calls : boot.calls[c].pc = "returned") =>
            /\ Len(jobs) = NumJobs
            /\ Len(candidates) = NumCandidates
            /\ Len(assessments) = 1
            /\ Len(timeline) = NumCandidates
            /\ \A i \in 1..NumCandidates :
                 timeline[i].candidateId \in DOMAIN candidates

\* two calls arrived while the first was seeding, and all three returned
C11_Witness ==
  /\ boot.calls[1].wrote /\ boot.calls[1].deleted
  /\ \A c \in Calls : boot.calls[c].pc = "returned"
  /\ \A c \in Calls \ {1} : boot.calls[c].overlapped

\* C12: a PATCH /api/candidates/:id that carries a stage and is answered 200
\* has set the stored stage of the candidate to it (in its update step) and
\* appends, in the step that answers, exactly one event to the timeline: a
\* 'stage_change' of that candidate from the stage the handler found stored
\* when it looked the candidate up to the new stage; no other step of the
\* request touches the timeline.
C12_StageTracked ==
  [][\A s \in Slots :
       LET r  == reqs[s]
           id == r.arg.id
       IN  (Pending(s, "patchCandidate") /\ r.arg.stage # NoStage
              /\ reqs'[s] # r)
             => /\ (r.pc = "start" /\ reqs'[s].status = 0)
                     => /\ reqs'[s].tmp = <<candidates[id].stage>>
                        /\ UNCHANGED <<candidates, timeline>>
                /\ (r.pc = "update" /\ reqs'[s].status = 0)
                     => /\ candidates'[id].stage = r.arg.stage
                        /\ reqs'[s].tmp = r.tmp
                        /\ reqs'[s].wrote
                        /\ UNCHANGED timeline
                /\ reqs'[s].status = 200
                     => /\ r.pc = "timeline" /\ r.wrote
                        /\ timeline' = Append(timeline,
                             [candidateId |-> id, type |-> "stage_change",
                              fromStage |-> r.tmp[1], toStage |-> r.arg.stage])
                        /\ reqs'[s].body[1].id = id
                /\ reqs'[s].status \notin {0, 200}
                     => UNCHANGED <<candidates, timeline>>]_vars

\* a stage PATCH was answered 200 after moving its candidate to another
\* stage, and its event is the last of the timeline
C12_Witness ==
  \E s \in Slots :
    /\ reqs[s].kind = "patchCandidate" /\ reqs[s].status = 200
    /\ reqs[s].arg.stage # NoStage
    /\ candidates[reqs[s].arg.id].stage = reqs[s].arg.stage
    /\ timeline # <<>>
    /\ timeline[Len(timeline)].candidateId = reqs[s].arg.id
    /\ timeline[Len(timeline)].toStage = reqs[s].arg.stage
    /\ timeline[Len(timeline)].fromStage # reqs[s].arg.stage

\* C13: every note stored through POST /api/candidates/:id/notes is in the
\* candidate's timeline: what GET /api/candidates/:id/timeline returns for a
\* candidate holds as many 'note_added' events as the candidate has notes.
C13_NotesInTimeline ==
  \A c \in CandIds :
    LET added == SelectSeq(getCandidateTimeline(c),
                           LAMBDA e : e.type = "note_added")
        mine  == SelectSeq(notes, LAMBDA n : n.candidateId = c)
    IN  Len(added) = Len(mine)

\* C14: a Save of the Assessment Builder (a PUT whose body has no id) that
\* met neither the injected failure nor a failure of the database is
\* answered 200, and the job then has an assessment with the saved title,
\* created if the job had none and updated otherwise.
C14_SaveRoundTrip ==
  \A s \in Slots :
    (/\ reqs[s].kind = "putAssessment" /\ reqs[s].arg.id = NoId
     /\ Answered(s) /\ ~reqs[s].injected /\ ~reqs[s].threw)
      => /\ reqs[s].status = 200
         /\ \E a \in DOMAIN assessments :
              /\ assessments[a].jobId = reqs[s].arg.jobId
              /\ assessments[a].title = reqs[s].arg.title

\* ------------------------------------------------------------------------
\* dbHelpers.getJobs and dbHelpers.getCandidates as functions of the tables
\* and the filters: every page of one listing, read with no write in between
\* ------------------------------------------------------------------------
MaxPageSize == 2

\* GET /api/jobs?status=..&page=p&pageSize=.. for p = 1, 2, ...
paginateJobs ==
  /\ evalv.fn = "getJobs" /\ evalv.pages = <<>>
  /\ evalv' = [evalv EXCEPT !.pages =
       [p \in 1..(NumJobs + 1) |-> getJobs([evalv.filters EXCEPT !.page = p])]]
  /\ UNCHANGED <<dbVars, reqs, ops, kanban, jobsPage, form, boot>>

\* GET /api/candidates?stage=..&jobId=..&page=p&pageSize=.. for p = 1, 2, ...
paginateCandidates ==
  /\ evalv.fn = "getCandidates" /\ evalv.pages = <<>>
  /\ evalv' = [evalv EXCEPT !.pages =
       [p \in 1..(NumCandidates + 1) |->
          getCandidates([evalv.filters EXCEPT !.page = p])]]
  /\ UNCHANGED <<dbVars, reqs, ops, kanban, jobsPage, form, boot>>

\* the tables: any stages, jobs and creation times for the candidates (ids
\* are uuids, unrelated to them); jobs with distinct orders, or none for a
\* job created through POST /api/jobs
InitPages ==
  /\ timeline = <<>> /\ notes = <<>> /\ assessments = <<>> /\ responses = <<>>
  /\ reqs = [s \in Slots |-> Free] /\ ops = 0
  /\ kanban = <<>> /\ jobsPage = <<>> /\ form = <<>> /\ boot = <<>>
  /\ \/ /\ \E o \in [JobIds -> (0..(NumJobs - 1)) \cup {NoOrder}],
               st \in [JobIds -> {"active", "archived"}] :
              /\ \A i, j \in JobIds : (i # j /\ o[i] # NoOrder) => o[i] # o[j]
              /\ jobs = [j \in JobIds |->
                           [slug |-> Slug(j), order |-> o[j], status |-> st[j]]]
        /\ candidates = generateSeedData(1, 1).candidates
        /\ \E status \in {"all", "active", "archived"}, pageSize \in 1..MaxPageSize :
             evalv = [fn |-> "getJobs", pages |-> <<>>,
                      filters |-> [status |-> status, page |-> 1,
                                   pageSize |-> pageSize]]
     \/ /\ jobs = generateSeedData(1, 1).jobs
        /\ candidates \in [CandIds -> [stage : {"applied", "screen"}, jobId : {1, 2},
                                       createdAt : CandIds]]
        /\ \E stage \in {NoStage, "applied", "screen"}, jobId \in {NoId, 1, 2},
              pageSize \in 1..MaxPageSize :
             evalv = [fn |-> "getCandidates", pages |-> <<>>,
                      filters |-> [stage |-> stage, jobId |-> jobId,
                                   page |-> 1, pageSize |-> pageSize]]

NextPages == paginateJobs \/ paginateCandidates

SpecPages == InitPages /\ [][NextPages]_vars

\* C15: what getCandidates returns satisfies every filter supplied: with a
\* stage filter every returned candidate has that stage, with a jobId filter
\* every returned candidate belongs to that job, and total is the number of
\* stored candidates that satisfy all the filters supplied.
C15_ConjunctiveFilters ==
  (evalv.fn = "getCandidates" /\ evalv.pages # <<>>) =>
    LET f == evalv.filters
        matching == {c \in DOMAIN candidates :
                       /\ f.stage # NoStage => candidates[c].stage = f.stage
                       /\ f.jobId # NoId => candidates[c].jobId = f.jobId}
    IN  \A p \in DOMAIN evalv.pages :
          /\ evalv.pages[p].total = Cardinality(matching)
          /\ \A i \in DOMAIN evalv.pages[p].data :
               evalv.pages[p].data[i].id \in matching

\* C16: over the pages of one listing, total is the number of stored records
\* that match the filters, totalPages is ceil(total / pageSize), no page
\* holds more than pageSize records, pages 1..totalPages concatenated hold
\* every matching record once and no other, in sort order (jobs by ascending
\* order, candidates by descending createdAt), and a page beyond totalPages
\* is empty.
C16_PaginationPartitions ==
  evalv.pages # <<>> =>
    LET f == evalv.filters
        isJobs == evalv.fn = "getJobs"
        matching ==
          IF isJobs
          THEN {j \in DOMAIN jobs : f.status # "all" => jobs[j].status = f.status}
          ELSE {c \in DOMAIN candidates :
                  /\ f.stage # NoStage => candidates[c].stage = f.stage
                  /\ f.jobId # NoId => candidates[c].jobId = f.jobId}
        first == evalv.pages[1]
        ids(p) == [i \in DOMAIN evalv.pages[p].data |-> evalv.pages[p].data[i].id]
        RECURSIVE concat(_)
        concat(p) == IF p = 0 THEN <<>> ELSE concat(p - 1) \o ids(p)
        listed == concat(first.totalPages)
        inOrder(a, b) ==
          IF isJobs
          THEN (jobs[a].order # NoOrder /\ jobs[b].order # NoOrder)
                 => jobs[a].order <= jobs[b].order
          ELSE candidates[a].createdAt >= candidates[b].createdAt
    IN  /\ first.total = Cardinality(matching)
        /\ first.totalPages = Ceil(first.total, f.pageSize)
        /\ first.totalPages < Len(evalv.pages)
        /\ \A p \in DOMAIN evalv.pages :
             /\ evalv.pages[p].total = first.total
             /\ evalv.pages[p].totalPages = first.totalPages
             /\ Len(evalv.pages[p].data) <= f.pageSize
             /\ p > first.totalPages => evalv.pages[p].data = <<>>
        /\ Len(listed) = Cardinality(matching)
        /\ \A i \in DOMAIN listed : listed[i] \in matching
        /\ \A i, j \in DOMAIN listed :
             i < j => (listed[i] # listed[j] /\ inOrder(listed[i], listed[j]))

\* C17: in the step in which a drop starts a stage mutation, the candidate
\* was cached in another stage than the column it was dropped on, the
\* request is not answered yet, and the cache differs from the one before
\* only in the stage of that candidate: same total, same length, same
\* candidates at the same places.  A mutation is started by no other drop
\* (the drop was on a column, not the cached one), and the cache changes
\* only in a step that starts a mutation, settles one or delivers a fetch.
C17_OptimisticFrame ==
  [][LET started == DOMAIN kanban'.muts \ DOMAIN kanban.muts
         settled == DOMAIN kanban.muts \ DOMAIN kanban'.muts
         fetched == kanban.fetch # 0 /\ kanban'.fetch = 0
     IN  /\ \A s \in started :
              LET ctx == kanban'.muts[s]
                  old == kanban.cache[1]
                  new == kanban'.cache[1]
              IN  /\ ctx.stage # NoStage
                  /\ cachedCandidate(ctx.id) # <<>>
                  /\ cachedStage(ctx.id) # ctx.stage
                  /\ reqs'[s].kind = "patchCandidate" /\ reqs'[s].status = 0
                  /\ reqs'[s].arg.id = ctx.id /\ reqs'[s].arg.stage = ctx.stage
                  /\ new.total = old.total
                  /\ DOMAIN new.data = DOMAIN old.data
                  /\ \A i \in DOMAIN old.data :
                       new.data[i] = IF old.data[i].id = ctx.id
                                     THEN [old.data[i] EXCEPT !.stage = ctx.stage]
                                     ELSE old.data[i]
                  /\ UNCHANGED dbVars
         /\ (started = {} /\ settled = {} /\ ~fetched)
              => kanban'.cache = kanban.cache]_vars

\* a candidate has just been dropped on another column: the request is
\* still in simulateDelay, the cache shows the new stage, the database the
\* old one, and the other candidate is cached as stored
C17_Witness ==
  \E s \in DOMAIN kanban.muts :
    LET ctx == kanban.muts[s]
    IN  /\ reqs[s].status = 0 /\ reqs[s].pc = "start"
        /\ ctx.id = 1
        /\ cachedStage(1) = ctx.stage
        /\ candidates[1].stage # ctx.stage
        /\ cachedStage(2) = candidates[2].stage
        /\ cachedStage(2) # ctx.stage

\* C18: when a stage mutation fails while a mutation for another candidate
\* is in flight whose optimistic update was applied after the failing one's
\* snapshot was taken, the error handler leaves the other candidate cached
\* in its optimistic stage.
C18_RollbackIsolation ==
  [][\A s, t \in Slots :
       (/\ s # t
        /\ Settles(s) /\ reqs[s].status # 200
        /\ t \in DOMAIN kanban.muts
        /\ kanban.muts[t].id # kanban.muts[s].id
        /\ kanban.muts[s].previousCandidates # <<>>
        /\ LET snapshot == kanban.muts[s].previousCandidates[1].data
           IN  \E i \in DOMAIN snapshot :
                 /\ snapshot[i].id = kanban.muts[t].id
                 /\ snapshot[i].stage # kanban.muts[t].stage
        /\ cachedStage(kanban.muts[t].id) = kanban.muts[t].stage)
         => cachedStage(kanban.muts[t].id)' = kanban.muts[t].stage]_vars

\* C19: a question one of whose conditions refers to a question that is
\* hidden under the current answers is hidden too, and the answers of a
\* submission hold no answer to a question that was hidden when they were
\* sent.
C19_HiddenAnswersDoNotLeak ==
  LET qs == allQuestions(form.assessment.sections)
      question(id) == qs[CHOOSE i \in 1..Len(qs) : qs[i].id = id]
      refersToHidden(q, answers) ==
        \E i \in 1..Len(q.conditionalLogic) :
          ~shouldShowQuestion(question(q.conditionalLogic[i].questionId), answers)
  IN  /\ \A i \in 1..Len(qs) :
           refersToHidden(qs[i], form.answers)
             => ~shouldShowQuestion(qs[i], form.answers)
      /\ \A s \in Slots :
           reqs[s].kind = "postSubmit" =>
             \A i \in 1..Len(qs) :
               reqs[s].arg.answers[qs[i].id] # Undefined
                 => shouldShowQuestion(qs[i], reqs[s].arg.answers)

====
